---- MODULE Spec2Model ----
(***************************************************************************)
(* passKeep: the session lifecycle of the server.                          *)
(*                                                                         *)
(* The model follows AuthService (Register, Login, Refresh), the refresh   *)
(* token ledger (TokensRepository over the auth_refresh_tokens table), the *)
(* user store (UsersRepository over the users table), the JWT manager and  *)
(* the HTTP handlers that translate service errors into responses.         *)
(*                                                                         *)
(* Time is counted in ticks.  The service reads `clock` (time.Now) and the *)
(* database reads `clock + skew` (NOW()).  pc[p] is where worker p stands  *)
(* in the request it serves, loc[p] holds the locals of that request, and  *)
(* res is the response being written, with the request it answers; it is  *)
(* delivered to the caller before the server takes its next step.          *)
(***************************************************************************)
EXTENDS Integers, Sequences, FiniteSets, TLC

VARIABLES cfg, skew, clock, users, ledger, pc, loc, res,
          boot, aead, keychain, kres, trial, call

sessionVars == <<cfg, skew, clock, users, ledger, pc, loc, res>>

(* The vault: boot is where RunServer stands, aead what NewAEAD gave it,   *)
(* keychain the keychain table, kres the response of a keychain request    *)
(* being written.  trial is one use of the AEAD envelope on its own, call  *)
(* one call of a function that keeps no state: its input and its result.   *)
vaultVars == <<boot, aead, keychain, kres, trial, call>>

vars == <<cfg, skew, clock, users, ledger, pc, loc, res,
          boot, aead, keychain, kres, trial, call>>

-----------------------------------------------------------------------------
(* Bounds of the model *)

MaxTime == 3
MaxJTI == 3

(* Refresh-token lifetime, access-token lifetime and the parser's leeway,  *)
(* in ticks.                                                               *)
RefreshTTL == 1
AccessTTL == 1
Leeway == 2

(* Payloads of the envelope have at most MaxLen bytes; the nonce and the   *)
(* tag of the cipher are counted in units of NonceSize and TagSize.        *)
MaxLen == 2

(* The keychain table has at most MaxKeys rows *)
MaxKeys == 2

(* A card number has at most MaxCard characters *)
MaxCard == 4
NonceSize == 1
TagSize == 1

Procs == {"w1", "w2"}
Skews == {-1, 0, 1}

Nil == "nil"
NoJTI == 0

-----------------------------------------------------------------------------
(* Errors, by the name of the Go variable *)

ErrUserNotFound == "ErrUserNotFound"
ErrDuplicateLogin == "ErrDuplicateLogin"
ErrLoginTooShort == "ErrLoginTooShort"
ErrLoginTooLong == "ErrLoginTooLong"
ErrPasswordTooShort == "ErrPasswordTooShort"
ErrInvalidCredentials == "ErrInvalidCredentials"
ErrInvalidRefreshCredentials == "ErrInvalidRefreshCredentials"

ErrTokenAlreadyRotatedOrExpired == "ErrTokenAlreadyRotatedOrExpired"
ErrTokenDoesntExistsByJTI == "ErrTokenDoesntExistsByJTI"
ErrEmptyRefreshCredentials == "ErrEmptyRefreshCredentials"

ErrAccessExpiredToken == "ErrAccessExpiredToken"
ErrAccessInvalidSubject == "ErrAccessInvalidSubject"
ErrRefreshExpiredToken == "ErrRefreshExpiredToken"
ErrRefreshInvalidClaims == "ErrRefreshInvalidClaims"
ErrUnexpectedSigningMethod == "ErrUnexpectedSigningMethod"
ErrSecretTooShort == "ErrSecretTooShort"

ErrBadRequest == "ErrBadRequest"
ErrInternalPublicError == "ErrInternalPublicError"

(* Errors of the collaborators: a failed storage call, a failed bcrypt     *)
(* call, strconv.ParseInt and uuid.Parse rejecting their input.            *)
ErrIO == "ErrIO"
ErrHash == "ErrHash"
ErrSyntax == "ErrSyntax"
ErrInvalidUUID == "ErrInvalidUUID"

(* errors.As(err, *apperr.AuthError): the values built by NewAuthError *)
IsAuthError(err) ==
    err \in {ErrAccessExpiredToken, ErrAccessInvalidSubject, ErrRefreshExpiredToken,
             ErrRefreshInvalidClaims, ErrUnexpectedSigningMethod}

(* errors.As(err, *apperr.ValidationError): built by NewValidationError *)
IsValidationError(err) ==
    err \in {ErrLoginTooShort, ErrLoginTooLong, ErrPasswordTooShort,
             ErrEmptyRefreshCredentials}

-----------------------------------------------------------------------------
(* Configuration *)

DefaultSecret == "12345678901234567890123456789012"
AccessSecret == "access-secret-access-secret-12345"
RefreshSecret == "refresh-secret-refresh-secret-123"
ShortSecret == "1234567890123456789012345678901"

Configs ==
    { [access |-> DefaultSecret, refresh |-> DefaultSecret],
      [access |-> AccessSecret, refresh |-> RefreshSecret],
      [access |-> ShortSecret, refresh |-> RefreshSecret],
      [access |-> AccessSecret, refresh |-> ShortSecret] }

(* The configurations the session model starts from: the two secrets are   *)
(* compared with nothing but their own tokens here, so one configuration   *)
(* with valid secrets stands for all of them.                              *)
SessionConfigs == { c \in Configs : c.access # DefaultSecret }

IsValidSecretKey(key) == Len(key) >= 32

-----------------------------------------------------------------------------
(* Inputs *)

LongLogin == "aaaaaaaaaaaaaaaaaaaaaaaaaaaaaaaaaaaaaaaaaaaaaaaaaaaaaaaaaaaaaaaaa"
Logins == {"bob", "alice", LongLogin}
Passwords == {"pass", "password1"}

ValidateLogin(l) ==
    IF Len(l) <= 3 THEN ErrLoginTooShort
    ELSE IF Len(l) > 64 THEN ErrLoginTooLong
    ELSE Nil

(* A check that lets every password pass *)
ValidatePassword_Lenient(p) == Nil

ValidatePassword(p) ==
    IF Len(p) < 8 THEN ErrPasswordTooShort ELSE Nil

(* bcrypt: the hash determines the password it was made from *)
HashPassword(password) == <<"bcrypt", password>>
CheckPasswordHash(password, hash) == hash = <<"bcrypt", password>>

-----------------------------------------------------------------------------
(* Tokens.  A signed token is its claims and the key that signed it; the   *)
(* empty string is EmptyToken.  sub and jti are strings in the token.      *)

EmptyToken == [sub |-> "", jti |-> "", exp |-> 0, key |-> ""]

JTIs == 1 .. MaxJTI

Itoa(n) == ToString(n)
ParseIntOK(s) == \E n \in 0 .. (Cardinality(Logins) + 1) : ToString(n) = s
ParseInt(s) == CHOOSE n \in 0 .. (Cardinality(Logins) + 1) : ToString(n) = s
UUIDString(j) == ToString(j)
UUIDParseOK(s) == \E j \in 0 .. (MaxJTI + 1) : ToString(j) = s
UUIDParse(s) == CHOOSE j \in 0 .. (MaxJTI + 1) : ToString(j) = s

Sha256Hex(tok) == <<"sha256", tok>>

GenerateAccessToken(userID, id, now) ==
    IF ~IsValidSecretKey(cfg.access)
    THEN [token |-> EmptyToken, err |-> ErrSecretTooShort]
    ELSE [token |-> [sub |-> Itoa(userID), jti |-> "a" \o UUIDString(id),
                     exp |-> now + AccessTTL, key |-> cfg.access],
          err |-> Nil]

GenerateRefreshToken(userID, id, now) ==
    IF ~IsValidSecretKey(cfg.refresh)
    THEN [token |-> EmptyToken, jti |-> NoJTI, ttl |-> 0, err |-> ErrSecretTooShort]
    ELSE [token |-> [sub |-> Itoa(userID), jti |-> UUIDString(id),
                     exp |-> now + RefreshTTL, key |-> cfg.refresh],
          jti |-> id, ttl |-> RefreshTTL, err |-> Nil]

(* jwt.ParseWithClaims with the refresh secret and 30 s of leeway *)
ParseRefreshToken(tok, now) ==
    IF tok = EmptyToken \/ tok.key # cfg.refresh \/ ~(now < tok.exp + Leeway)
    THEN ErrRefreshExpiredToken
    ELSE IF tok.sub = "" \/ tok.jti = ""
    THEN ErrRefreshInvalidClaims
    ELSE Nil

(* jwt.ParseWithClaims with the access secret and 30 s of leeway; the     *)
(* claims of the two kinds of token have the same shape                    *)
ParseAccessToken(tok, now) ==
    IF tok = EmptyToken \/ tok.key # cfg.access \/ ~(now < tok.exp + Leeway)
    THEN [userID |-> "", err |-> ErrAccessExpiredToken]
    ELSE IF tok.sub = ""
    THEN [userID |-> "", err |-> ErrAccessInvalidSubject]
    ELSE [userID |-> tok.sub, err |-> Nil]

ValidateRefreshToken(tok) ==
    IF tok = EmptyToken THEN ErrEmptyRefreshCredentials ELSE Nil

-----------------------------------------------------------------------------
(* The ledger *)

NoRec == [jti |-> NoJTI, user_id |-> 0, token_hash |-> Sha256Hex(EmptyToken),
          issued_at |-> 0, expires_at |-> 0, replaced_by |-> NoJTI]

(* A record that expires when it is issued *)
NewRecord_WithoutTTL(userID, jti, tokenHash, issuedAt, expiresAt) ==
    [jti |-> jti, user_id |-> userID, token_hash |-> tokenHash,
     issued_at |-> issuedAt, expires_at |-> issuedAt, replaced_by |-> NoJTI]

NewRecord(userID, jti, tokenHash, issuedAt, expiresAt) ==
    [jti |-> jti, user_id |-> userID, token_hash |-> tokenHash,
     issued_at |-> issuedAt, expires_at |-> expiresAt, replaced_by |-> NoJTI]

(* INSERT INTO auth_refresh_tokens *)
Insert(l, rec) == [j \in DOMAIN l \cup {rec.jti} |-> IF j = rec.jti THEN rec ELSE l[j]]

(* The database clock *)
DBNow == clock + skew

(* The update without `replaced_by IS NULL` *)
UpdateMatches_IgnoringReplaced(l, userID, oldJTI, dbNow) ==
    /\ oldJTI \in DOMAIN l
    /\ l[oldJTI].user_id = userID
    /\ l[oldJTI].expires_at > dbNow

(* The update without `expires_at > NOW()` *)
UpdateMatches_IgnoringExpiry(l, userID, oldJTI, dbNow) ==
    /\ oldJTI \in DOMAIN l
    /\ l[oldJTI].user_id = userID
    /\ l[oldJTI].replaced_by = NoJTI

(* WHERE jti = $2 AND user_id = $3 AND replaced_by IS NULL AND expires_at > NOW() *)
UpdateMatches(l, userID, oldJTI, dbNow) ==
    /\ oldJTI \in DOMAIN l
    /\ l[oldJTI].user_id = userID
    /\ l[oldJTI].replaced_by = NoJTI
    /\ l[oldJTI].expires_at > dbNow

(* A commit that also rewrites the hash of the replaced record *)
TxCommit_RewritingHash(l, userID, oldJTI, newJTI, newHash, newIssuedAt, newExpiresAt) ==
    Insert([l EXCEPT ![oldJTI].replaced_by = newJTI, ![oldJTI].token_hash = newHash],
           NewRecord(userID, newJTI, newHash, newIssuedAt, newExpiresAt))

(* A commit of the update alone *)
TxCommit_WithoutInsert(l, userID, oldJTI, newJTI, newHash, newIssuedAt, newExpiresAt) ==
    [l EXCEPT ![oldJTI].replaced_by = newJTI]

(* tx.Commit: the update and the insert become visible together *)
TxCommit(l, userID, oldJTI, newJTI, newHash, newIssuedAt, newExpiresAt) ==
    Insert([l EXCEPT ![oldJTI].replaced_by = newJTI],
           NewRecord(userID, newJTI, newHash, newIssuedAt, newExpiresAt))

(* A rollback that keeps the update *)
TxRollback_KeepingUpdate(l, oldJTI, newJTI) ==
    [l EXCEPT ![oldJTI].replaced_by = newJTI]

(* defer tx.Rollback: nothing of the transaction stays *)
TxRollback(l, oldJTI, newJTI) == l

GetByJTI(l, jti) == IF jti \in DOMAIN l THEN l[jti] ELSE NoRec

(* ValidateToken without the replaced_by check *)
ValidateToken_IgnoringReplaced(now, userId, incomingHash, rec) ==
    IF rec.user_id # userId THEN ErrInvalidRefreshCredentials
    ELSE IF now > rec.expires_at THEN ErrInvalidRefreshCredentials
    ELSE IF rec.token_hash # incomingHash THEN ErrInvalidRefreshCredentials
    ELSE Nil

ValidateToken(now, userId, incomingHash, rec) ==
    IF rec.user_id # userId THEN ErrInvalidRefreshCredentials
    ELSE IF rec.replaced_by # NoJTI THEN ErrInvalidRefreshCredentials
    ELSE IF now > rec.expires_at THEN ErrInvalidRefreshCredentials
    ELSE IF rec.token_hash # incomingHash THEN ErrInvalidRefreshCredentials
    ELSE Nil

(* Login handing the repository's error on *)
GetByLoginError_Unmapped(err) == err

(* AuthService.Login: UserNotFound becomes InvalidCredentials *)
GetByLoginError(err) ==
    IF err = ErrUserNotFound THEN ErrInvalidCredentials ELSE err

(* AuthService.Refresh: a missing record becomes InvalidRefreshCredentials *)
GetByJTIError(err) ==
    IF err = ErrTokenDoesntExistsByJTI THEN ErrInvalidRefreshCredentials ELSE err

(* AuthService.Refresh: any ValidateToken error becomes InvalidRefreshCredentials *)
ValidateTokenError(err) == ErrInvalidRefreshCredentials

-----------------------------------------------------------------------------
(* The HTTP boundary *)

RegisterStatus(err) ==
    IF err = Nil THEN 201
    ELSE IF err = ErrDuplicateLogin THEN 409
    ELSE IF IsValidationError(err) THEN 400
    ELSE 500

LoginStatus(err) ==
    IF err = Nil THEN 200
    ELSE IF IsAuthError(err) THEN 401
    ELSE IF IsValidationError(err) THEN 400
    ELSE 500

RefreshStatus(err) ==
    IF err = Nil THEN 200
    ELSE IF err = ErrEmptyRefreshCredentials THEN 400
    ELSE IF IsAuthError(err) THEN 401
    ELSE 500

Status(op, err) ==
    IF op = "Register" THEN RegisterStatus(err)
    ELSE IF op = "Login" THEN LoginStatus(err)
    ELSE RefreshStatus(err)

(* PublicError writes err.Error(); InternalError writes the generic text *)
ErrorText(status, err) ==
    IF err = Nil THEN ""
    ELSE IF status = 500 THEN ErrInternalPublicError
    ELSE err

Response(op, err, userId, access, refresh) ==
    [err |-> err, status |-> Status(op, err), text |-> ErrorText(Status(op, err), err),
     userId |-> userId, access |-> access, refresh |-> refresh]

(* An error response that still names a user *)
Failure_NamingUser(op, err) == Response(op, err, 1, EmptyToken, EmptyToken)

Failure(op, err) == Response(op, err, 0, EmptyToken, EmptyToken)

(* The request a response answers *)
Request(op, login, password, tok) ==
    [op |-> op, login |-> login, password |-> password, token |-> tok]

NoResponse == [req |-> Request("none", "", "", EmptyToken),
               rsp |-> [err |-> Nil, status |-> 0, text |-> "", userId |-> 0,
                        access |-> EmptyToken, refresh |-> EmptyToken]]

-----------------------------------------------------------------------------
(* The AEAD envelope (AES-256-GCM).  A byte is one of Bytes, a key stream   *)
(* byte is named by the key, the nonce and the position that produce it,   *)
(* and the tag by the key, the nonce and the sealed bytes it covers.        *)

ErrAEADWrongLength == "ErrAEADWrongLength"
ErrKeySize == "aes.KeySizeError"
ErrOpen == "cipher: message authentication failed"
ErrRand == "ErrRand"
Panic == "panic"

CryptKey == "0123456789abcdef0123456789abcdef"
OtherCryptKey == "fedcba9876543210fedcba9876543210"
ShortCryptKey == "12345"
LongCryptKey == "0123456789abcdef0123456789abcdef0"
CryptKeys == {CryptKey, OtherCryptKey, ShortCryptKey, LongCryptKey}

Bytes == {0, 1}
Flip(b) == 1 - b
Nonces == [1 .. NonceSize -> Bytes]
Payloads == UNION { [1 .. n -> Bytes] : n \in 0 .. MaxLen }

(* A nil *AEAD *)
NilAEAD == [isNil |-> TRUE, key |-> ""]

NewAEAD(secret) ==
    IF Len(secret) # 32
    THEN [aead |-> NilAEAD, err |-> ErrAEADWrongLength]
    ELSE [aead |-> [isNil |-> FALSE, key |-> secret], err |-> Nil]

Keystream(key, nonce, i) == <<key, nonce, i>>
Mask(b, k) == <<b, k>>
(* An opening that gives every byte back inverted *)
Unmask_Inverting(c, k) == Flip(c[1])

Unmask(c, k) == IF c[2] = k THEN c[1] ELSE <<"garbled", c, k>>
Tag(key, nonce, body) == <<"tag", key, nonce, body>>

(* gcm.Seal(nil, nonce, plaintext, nil): the sealed bytes, then the tag *)
Seal(key, nonce, plaintext) ==
    LET body == [i \in 1 .. Len(plaintext) |->
                   Mask(plaintext[i], Keystream(key, nonce, i))]
    IN  Append(body, Tag(key, nonce, body))

(* gcm.Open(nil, nonce, ciphertext, nil) *)
Open(key, nonce, ciphertext) ==
    IF Len(nonce) # NonceSize
    THEN [plaintext |-> <<>>, err |-> Panic]
    ELSE IF Len(ciphertext) < TagSize
    THEN [plaintext |-> <<>>, err |-> ErrOpen]
    ELSE LET body == SubSeq(ciphertext, 1, Len(ciphertext) - TagSize)
         IN  IF ciphertext[Len(ciphertext)] # Tag(key, nonce, body)
             THEN [plaintext |-> <<>>, err |-> ErrOpen]
             ELSE [plaintext |-> [i \in 1 .. Len(body) |->
                                    Unmask(body[i], Keystream(key, nonce, i))],
                   err |-> Nil]

(* AEAD.Encrypt; `nonce` is what rand.Reader gives, `randFails` its error *)
Encrypt(a, plaintext, nonce, randFails) ==
    IF a.isNil
    THEN [nonce |-> <<>>, ciphertext |-> <<>>, err |-> Panic]
    ELSE IF Len(a.key) \notin {16, 24, 32}
    THEN [nonce |-> <<>>, ciphertext |-> <<>>, err |-> ErrKeySize]
    ELSE IF randFails
    THEN [nonce |-> <<>>, ciphertext |-> <<>>, err |-> ErrRand]
    ELSE [nonce |-> nonce, ciphertext |-> Seal(a.key, nonce, plaintext), err |-> Nil]

(* AEAD.Decrypt *)
Decrypt(a, nonce, ciphertext) ==
    IF a.isNil
    THEN [plaintext |-> <<>>, err |-> Panic]
    ELSE IF Len(a.key) \notin {16, 24, 32}
    THEN [plaintext |-> <<>>, err |-> ErrKeySize]
    ELSE Open(a.key, nonce, ciphertext)

(* One use of the envelope: a payload is sealed, what was sealed is kept   *)
(* or changed on its way, and the result is opened.                        *)
NoTrial == [stage |-> "none", key |-> "", plaintext |-> <<>>, nonce |-> <<>>,
            ciphertext |-> <<>>, openKey |-> "", change |-> "none",
            out |-> <<>>, err |-> Nil]

(* The bytes of a ciphertext with one of them changed *)
FlipAt(ciphertext, i) ==
    [ciphertext EXCEPT ![i] =
        IF i = Len(ciphertext) THEN <<"tag-flipped", @>> ELSE Mask(Flip(@[1]), @[2])]

TrialInit ==
    \E key \in {CryptKey, OtherCryptKey}, plaintext \in Payloads :
      trial = [NoTrial EXCEPT !.stage = "new", !.key = key, !.openKey = key,
                              !.plaintext = plaintext]

TrialEncrypt ==
    /\ trial.stage = "new"
    /\ \E nonce \in Nonces, randFails \in BOOLEAN :
         LET r == Encrypt(NewAEAD(trial.key).aead, trial.plaintext, nonce, randFails)
         IN  trial' = IF r.err # Nil
                      THEN [trial EXCEPT !.stage = "failed", !.err = r.err]
                      ELSE [trial EXCEPT !.stage = "sealed", !.nonce = r.nonce,
                                         !.ciphertext = r.ciphertext]
    /\ UNCHANGED <<sessionVars, boot, aead, keychain, kres, call>>

TrialFlipCiphertext ==
    /\ trial.stage = "sealed" /\ trial.change = "none"
    /\ \E i \in 1 .. Len(trial.ciphertext) :
         trial' = [trial EXCEPT !.change = "ciphertext bit",
                                !.ciphertext = FlipAt(trial.ciphertext, i)]
    /\ UNCHANGED <<sessionVars, boot, aead, keychain, kres, call>>

TrialFlipNonce ==
    /\ trial.stage = "sealed" /\ trial.change = "none"
    /\ \E i \in 1 .. Len(trial.nonce) :
         trial' = [trial EXCEPT !.change = "nonce bit",
                                !.nonce = [trial.nonce EXCEPT ![i] = Flip(@)]]
    /\ UNCHANGED <<sessionVars, boot, aead, keychain, kres, call>>

TrialResizeNonce ==
    /\ trial.stage = "sealed" /\ trial.change = "none"
    /\ \E nonce \in {SubSeq(trial.nonce, 1, Len(trial.nonce) - 1),
                     Append(trial.nonce, 0)} :
         trial' = [trial EXCEPT !.change = "nonce length", !.nonce = nonce]
    /\ UNCHANGED <<sessionVars, boot, aead, keychain, kres, call>>

TrialCutCiphertext ==
    /\ trial.stage = "sealed" /\ trial.change = "none"
    /\ trial' = [trial EXCEPT !.change = "ciphertext cut",
                              !.ciphertext = SubSeq(@, 1, TagSize - 1)]
    /\ UNCHANGED <<sessionVars, boot, aead, keychain, kres, call>>

TrialOtherKey ==
    /\ trial.stage = "sealed" /\ trial.change = "none"
    /\ \E key \in {CryptKey, OtherCryptKey} \ {trial.key} :
         trial' = [trial EXCEPT !.change = "key", !.openKey = key]
    /\ UNCHANGED <<sessionVars, boot, aead, keychain, kres, call>>

TrialDecrypt ==
    /\ trial.stage = "sealed"
    /\ LET r == Decrypt(NewAEAD(trial.openKey).aead, trial.nonce, trial.ciphertext)
       IN  trial' = [trial EXCEPT !.stage = "opened", !.out = r.plaintext,
                                  !.err = r.err]
    /\ UNCHANGED <<sessionVars, boot, aead, keychain, kres, call>>

-----------------------------------------------------------------------------
(* The keychain.  Strings the validators look into are sequences of        *)
(* characters; a JSON document is the sequence of its members.             *)

KeyCredential == "credential"
KeyText == "text"
KeyFile == "file"
KeyBankCard == "card"

ErrTitleEmpty == "ErrTitleEmpty"
ErrTitleLong == "ErrTitleLong"
ErrCredentialEmptyLogin == "ErrCredentialEmptyLogin"
ErrCardNumberInvalid == "ErrCardNumberInvalid"
ErrCardCVVInvalid == "ErrCardCVVInvalid"
ErrEmptyTextProvided == "ErrEmptyTextProvided"
ErrNoRows == "sql.ErrNoRows"
ErrNotFound == "ErrNotFound"
ErrUnauthorizedError == "ErrUnauthorizedError"
ErrNoPostgresConnection == "ErrNoPostgresConnection"
ErrBadQuery == "ErrBadQuery"
ErrPayloadFileLimit == "ErrPayloadFileLimit"
ErrPayloadFileNotFound == "ErrPayloadFileNotFound"

IsKeychainValidationError(err) ==
    err \in {ErrTitleEmpty, ErrTitleLong, ErrCredentialEmptyLogin,
             ErrCardNumberInvalid, ErrCardCVVInvalid, ErrEmptyTextProvided}

RECURSIVE TrimLeft(_)
TrimLeft(str) ==
    IF str # <<>> /\ Head(str) = " " THEN TrimLeft(Tail(str)) ELSE str

RECURSIVE TrimRight(_)
TrimRight(str) ==
    IF str # <<>> /\ str[Len(str)] = " "
    THEN TrimRight(SubSeq(str, 1, Len(str) - 1))
    ELSE str

TrimSpace(str) == TrimRight(TrimLeft(str))

(* A string is the sequence of its characters; a character outside ASCII  *)
(* is named by its code point and takes two bytes in UTF-8.  len() of a Go *)
(* string is the number of its bytes.                                      *)
Zhe == "U+0436"
Utf8Width(c) == IF c = Zhe THEN 2 ELSE 1

ByteLen(str) == Len(str) + Cardinality({ i \in DOMAIN str : Utf8Width(str[i]) = 2 })

ValidateTitle(title) ==
    IF TrimSpace(title) = <<>> THEN ErrTitleEmpty
    ELSE IF ByteLen(TrimSpace(title)) > 128 THEN ErrTitleLong
    ELSE Nil

ValidateCredential(login) ==
    IF TrimSpace(login) = <<>> THEN ErrCredentialEmptyLogin ELSE Nil

IsDigit(c) == \E d \in 0 .. 9 : ToString(d) = c
DigitValue(c) == CHOOSE d \in 0 .. 9 : ToString(d) = c

(* strings.ReplaceAll(number, " ", "") *)
WithoutSpaces(number) == SelectSeq(number, LAMBDA c : c # " ")

(* The loop of isValidLuhn from position i down: the sum, or -1 when a     *)
(* character is no digit                                                   *)
RECURSIVE LuhnSum(_, _, _)
LuhnSum(number, i, double) ==
    IF i = 0 THEN 0
    ELSE IF ~IsDigit(number[i]) THEN -1
    ELSE LET d == DigitValue(number[i])
             digit == IF double THEN (IF 2 * d > 9 THEN 2 * d - 9 ELSE 2 * d) ELSE d
             rest == LuhnSum(number, i - 1, ~double)
         IN  IF rest = -1 THEN -1 ELSE digit + rest

isValidLuhn(number) ==
    LET n == WithoutSpaces(number)
        sum == LuhnSum(n, Len(n), FALSE)
    IN  sum # -1 /\ sum % 10 = 0

ValidateCard(num, cvv) ==
    IF ~isValidLuhn(TrimSpace(num)) THEN ErrCardNumberInvalid
    ELSE IF ByteLen(TrimSpace(cvv)) # 3 THEN ErrCardCVVInvalid
    ELSE Nil

ValidateText(text) ==
    IF TrimSpace(text) = <<>> THEN ErrEmptyTextProvided ELSE Nil

(* encoding/json: a member is written unless it is tagged "-" or it is     *)
(* tagged omitempty and empty; a member absent from a document is read as  *)
(* the empty value, and a member tagged "-" is never read.                 *)
Member(name, value) == <<name, value>>
OmitEmpty(name, value) == IF value = <<>> THEN <<>> ELSE <<Member(name, value)>>

Field(doc, name) ==
    IF \E i \in DOMAIN doc : doc[i][1] = name
    THEN doc[CHOOSE i \in DOMAIN doc : doc[i][1] = name][2]
    ELSE <<>>

(* json.Marshal of CredentialData, CardData, TextData and FileData *)
Marshal(keyType, in) ==
    IF keyType = KeyCredential
    THEN <<Member("login", in.login), Member("password", in.password)>>
         \o OmitEmpty("site", in.site) \o OmitEmpty("note", in.note)
    ELSE IF keyType = KeyBankCard
    THEN <<Member("number", in.number), Member("exp_date", in.exp_date),
           Member("cvv", in.cvv), Member("holder", in.holder)>>
         \o OmitEmpty("bank", in.bank) \o OmitEmpty("note", in.note)
    ELSE IF keyType = KeyText
    THEN <<Member("text", in.text)>> \o OmitEmpty("note", in.note)
    ELSE OmitEmpty("note", in.note)

(* json.Unmarshal into CredentialsResponseDTO, CardResponseDTO,            *)
(* TextResponseDTO and FileResponseDTO                                     *)
Unmarshal(keyType, doc) ==
    IF keyType = KeyCredential
    THEN [login |-> Field(doc, "login"), password |-> Field(doc, "password"),
          site |-> Field(doc, "site"), note |-> Field(doc, "note")]
    ELSE IF keyType = KeyBankCard
    THEN [number |-> Field(doc, "number"), exp_date |-> Field(doc, "exp_date"),
          cvv |-> Field(doc, "cvv"), holder |-> Field(doc, "holder"),
          bank |-> Field(doc, "bank"), note |-> Field(doc, "note")]
    ELSE IF keyType = KeyText
    THEN [text |-> Field(doc, "text"), note |-> Field(doc, "note")]
    ELSE [file |-> <<>>, note |-> Field(doc, "note")]

(* What a caller may send *)
Title == <<"t">>
BlankTitle == <<" ">>
LongTitle == [i \in 1 .. 129 |-> "t"]
CyrillicTitle == [i \in 1 .. 65 |-> Zhe]
Titles == {Title, BlankTitle, LongTitle, CyrillicTitle}

Credentials ==
    [login : {<<"u">>, <<>>}, password : {<<"p">>}, site : {<<>>},
     note : {<<>>, <<"n">>}]

Cards ==
    [number : {<<"1", " ", "8">>, <<"1", "9">>, <<"1", "x">>},
     exp_date : {<<"1", "2", "/", "3", "0">>},
     cvv : {<<"1", "2", "3">>, <<"1">>}, holder : {<<"h">>}, bank : {<<>>},
     note : {<<>>}]

Texts == [text : {<<"x">>, <<" ">>}, note : {<<>>}]

Files == [file : {<<>>, <<7>>}, note : {<<>>, <<"n">>}]

UserIDs == {1, 2}
NoUser == 0

(* A row of the keychain table; its id is its place in the table *)
KeyRow(keyUUID, userID, keyType, title, data, nonce) ==
    [key_uuid |-> keyUUID, user_id |-> userID, type |-> keyType, title |-> title,
     data |-> data, nonce |-> nonce, soft_deleted |-> FALSE]

(* uuid.New() in AddKey *)
NewKeyUUID(table) == ToString(Len(table) + 1)

(* KeychainRepository.AddKey *)
AddKey(table, userID, keyType, title, data, nonce) ==
    Append(table, KeyRow(NewKeyUUID(table), userID, keyType, title, data, nonce))

(* A filter that forgets soft_deleted *)
Live_IgnoringSoftDelete(table, userID, keyUUID) ==
    { i \in DOMAIN table : table[i].user_id = userID /\ table[i].key_uuid = keyUUID }

(* A filter that forgets user_id *)
Live_OfAnyUser(table, userID, keyUUID) ==
    { i \in DOMAIN table : ~table[i].soft_deleted /\ table[i].key_uuid = keyUUID }

(* WHERE soft_deleted = false AND user_id = $1 AND key_uuid = $2 *)
Live(table, userID, keyUUID) ==
    { i \in DOMAIN table : /\ ~table[i].soft_deleted
                           /\ table[i].user_id = userID
                           /\ table[i].key_uuid = keyUUID }

(* KeychainRepository.DeleteKey *)
DeleteKeyRows(table, userID, keyUUID) ==
    [i \in DOMAIN table |->
       IF i \in Live(table, userID, keyUUID)
       THEN [table[i] EXCEPT !.soft_deleted = TRUE]
       ELSE table[i]]

(* KeychainRepository.GetUserKey *)
GetUserKey(table, userID, keyUUID) ==
    IF Live(table, userID, keyUUID) = {}
    THEN [row |-> 0, err |-> ErrNoRows]
    ELSE [row |-> CHOOSE i \in Live(table, userID, keyUUID) : TRUE, err |-> Nil]

(* KeychainRepository.GetUserKeys: rows are created in the order of the    *)
(* table, ORDER BY created_at DESC lists them from the last to the first   *)
RECURSIVE ListFrom(_, _, _, _)
ListFrom(table, i, userID, keyType) ==
    IF i = 0 THEN <<>>
    ELSE IF /\ ~table[i].soft_deleted
            /\ table[i].user_id = userID
            /\ (keyType = "" \/ table[i].type = keyType)
    THEN <<[uuid |-> table[i].key_uuid, type |-> table[i].type,
            title |-> table[i].title]>>
         \o ListFrom(table, i - 1, userID, keyType)
    ELSE ListFrom(table, i - 1, userID, keyType)

GetUserKeys(table, userID, keyType) == ListFrom(table, Len(table), userID, keyType)

ParseKeyTypeOK(raw) == raw \in {KeyCredential, KeyText, KeyFile, KeyBankCard}

(* uuid.Parse of the URL parameter *)
KeyUUIDs == { ToString(i) : i \in 1 .. MaxKeys + 1 }
KeyUUIDParams == KeyUUIDs \cup {"not-a-uuid"}
KeyUUIDParseOK(param) == param \in KeyUUIDs

-----------------------------------------------------------------------------
(* Keychain requests and responses *)

(* The Authorization header: its scheme prefix and what follows it *)
NoHeader == [scheme |-> "", token |-> EmptyToken]

KeyRequest(op, userID, keyUUID, keyType, title, in) ==
    [op |-> op, header |-> NoHeader, userId |-> userID, uuid |-> keyUUID,
     type |-> keyType, title |-> title, in |-> in]

NoKeyRequest == KeyRequest("none", NoUser, "", "", <<>>, <<>>)

KeyResponse(status, err) ==
    [status |-> status, err |-> err,
     text |-> IF err = Nil THEN "" ELSE IF status = 500 THEN ErrInternalPublicError ELSE err,
     uuid |-> "", type |-> "", title |-> <<>>, plain |-> <<>>, data |-> <<>>,
     keys |-> <<>>]

(* The connection is dropped by net/http when the handler panics *)
Dropped == [KeyResponse(0, Panic) EXCEPT !.text = ""]

NoKeyResponse == [req |-> NoKeyRequest, rsp |-> KeyResponse(0, Nil)]

(* No function is being called *)
NoCall == [fn |-> "none", in |-> <<>>, out |-> Nil, done |-> FALSE]

Booting == [state |-> "init", secret |-> "", storage |-> TRUE, err |-> Nil]

(* The vault is not part of the behaviour *)
VaultOff ==
    /\ boot = [Booting EXCEPT !.state = "off"]
    /\ aead = NilAEAD
    /\ keychain = <<>>
    /\ kres = NoKeyResponse
    /\ trial = NoTrial
    /\ call = NoCall

-----------------------------------------------------------------------------
(* Locals of a request *)

InitLoc == [login |-> "", password |-> "", token |-> EmptyToken, userId |-> 0,
            oldJTI |-> NoJTI, now |-> 0, access |-> EmptyToken,
            refresh |-> EmptyToken, newJTI |-> NoJTI]

(* The session is not part of the behaviour *)
SessionOff ==
    /\ cfg = [access |-> AccessSecret, refresh |-> RefreshSecret]
    /\ skew = 0
    /\ clock = 0
    /\ users = <<>>
    /\ ledger = <<>>
    /\ pc = [p \in Procs |-> "idle"]
    /\ loc = [p \in Procs |-> InitLoc]
    /\ res = NoResponse

Init ==
    /\ cfg \in SessionConfigs
    /\ skew \in Skews
    /\ clock = 0
    /\ users = <<>>
    /\ ledger = <<>>
    /\ pc = [p \in Procs |-> "idle"]
    /\ loc = [p \in Procs |-> InitLoc]
    /\ res = NoResponse
    /\ VaultOff

(* The handler writes the response and the worker is free again *)
Return(p, req, response) ==
    /\ pc' = [pc EXCEPT ![p] = "idle"]
    /\ loc' = [loc EXCEPT ![p] = InitLoc]
    /\ res' = [req |-> req, rsp |-> response]

(* No response is waiting to be delivered *)
Quiet == res = NoResponse

(* The caller receives the response *)
Deliver ==
    /\ ~Quiet
    /\ res' = NoResponse
    /\ UNCHANGED <<cfg, skew, clock, users, ledger, pc, loc>>
    /\ UNCHANGED vaultVars

(* uuid.New(): an id no record and no request in progress holds *)
InUse(j) == j \in DOMAIN ledger \/ \E q \in Procs : pc[q] # "idle" /\ loc[q].newJTI = j
HasFresh == \E j \in JTIs : ~InUse(j)
FreshJTI ==
    IF HasFresh
    THEN CHOOSE j \in JTIs : ~InUse(j) /\ \A k \in JTIs : k < j => InUse(k)
    ELSE NoJTI

(* A user store without the UNIQUE constraint on login *)
LoginTaken_Never(l) == FALSE

LoginTaken(l) == \E i \in 1 .. Len(users) : users[i].login = l
UserByLogin(l) == CHOOSE i \in 1 .. Len(users) : users[i].login = l

Tick ==
    /\ Quiet
    /\ clock < MaxTime
    /\ clock' = clock + 1
    /\ UNCHANGED <<cfg, skew, users, ledger, pc, loc, res>>
    /\ UNCHANGED vaultVars

-----------------------------------------------------------------------------
(* Handlers.Register / Login / Refresh: the body cannot be read (500) or   *)
(* is not the JSON expected (400); the service is not called.              *)
BadBody(p) ==
    /\ Quiet
    /\ pc[p] = "idle"
    /\ \E op \in {"Register", "Login", "Refresh"}, readFails \in BOOLEAN :
         Return(p, Request(op, "", "", EmptyToken),
                [NoResponse.rsp EXCEPT
                    !.err = IF readFails THEN ErrIO ELSE ErrBadRequest,
                    !.status = IF readFails THEN 500 ELSE 400,
                    !.text = IF readFails THEN ErrInternalPublicError ELSE ErrBadRequest])
    /\ UNCHANGED <<cfg, skew, clock, users, ledger>>
    /\ UNCHANGED vaultVars

-----------------------------------------------------------------------------
(* AuthService.Register up to userRepo.Create *)
RegisterStart(p) ==
    /\ Quiet
    /\ pc[p] = "idle"
    /\ \E login \in Logins, password \in Passwords :
         LET verr == IF ValidateLogin(login) # Nil THEN ValidateLogin(login)
                     ELSE ValidatePassword(password)
         IN  IF verr # Nil
             THEN /\ Return(p, Request("Register", login, password, EmptyToken),
                            Failure("Register", verr))
                  /\ UNCHANGED users
             ELSE \E fault \in {Nil, ErrHash, ErrIO} :
                    LET err == IF fault = ErrHash THEN ErrHash
                               ELSE IF LoginTaken(login) THEN ErrDuplicateLogin
                               ELSE fault
                    IN  IF err # Nil
                        THEN /\ Return(p, Request("Register", login, password, EmptyToken),
                                       Failure("Register", err))
                             /\ UNCHANGED users
                        ELSE /\ users' = Append(users,
                                    [login |-> login, password |-> HashPassword(password)])
                             /\ loc' = [loc EXCEPT ![p] =
                                    [InitLoc EXCEPT !.login = login, !.password = password,
                                                    !.userId = Len(users) + 1]]
                             /\ pc' = [pc EXCEPT ![p] = "reg_issue"]
                             /\ UNCHANGED res
    /\ UNCHANGED <<cfg, skew, clock, ledger>>
    /\ UNCHANGED vaultVars

(* Register and Login from GenerateAccessToken to tokenRepo.Create *)
IssueTokens(p, op, uid, login, password) ==
    LET at == GenerateAccessToken(uid, FreshJTI, clock)
        rt == GenerateRefreshToken(uid, FreshJTI, clock)
        issuedAt == clock
        expiresAt == issuedAt + rt.ttl
        genErr == IF at.err # Nil THEN at.err ELSE rt.err
    IN  IF genErr # Nil
        THEN /\ Return(p, Request(op, login, password, EmptyToken), Failure(op, genErr))
             /\ UNCHANGED ledger
        ELSE \E io \in BOOLEAN :
               IF io
               THEN /\ Return(p, Request(op, login, password, EmptyToken), Failure(op, ErrIO))
                    /\ UNCHANGED ledger
               ELSE /\ HasFresh
                    /\ ledger' = Insert(ledger,
                           NewRecord(uid, rt.jti, Sha256Hex(rt.token), issuedAt, expiresAt))
                    /\ Return(p, Request(op, login, password, EmptyToken),
                              Response(op, Nil, uid, at.token, rt.token))

RegisterIssue(p) ==
    /\ Quiet
    /\ pc[p] = "reg_issue"
    /\ IssueTokens(p, "Register", loc[p].userId, loc[p].login, loc[p].password)
    /\ UNCHANGED <<cfg, skew, clock, users>>
    /\ UNCHANGED vaultVars

(* AuthService.Login.  The user row it reads never changes, so the lookup  *)
(* and the insert of the refresh record are taken as one step.             *)
Login(p) ==
    /\ Quiet
    /\ pc[p] = "idle"
    /\ \E login \in Logins, password \in Passwords :
         IF ValidateLogin(login) # Nil
         THEN /\ Return(p, Request("Login", login, password, EmptyToken),
                        Failure("Login", ValidateLogin(login)))
              /\ UNCHANGED ledger
         ELSE \E io \in BOOLEAN :
                LET getErr == IF io THEN ErrIO
                              ELSE IF ~LoginTaken(login) THEN ErrUserNotFound
                              ELSE Nil
                    au == IF getErr = Nil THEN UserByLogin(login) ELSE 0
                    err == IF getErr # Nil THEN GetByLoginError(getErr)
                           ELSE IF ~CheckPasswordHash(password, users[au].password)
                           THEN ErrInvalidCredentials
                           ELSE Nil
                IN  IF err # Nil
                    THEN /\ Return(p, Request("Login", login, password, EmptyToken),
                                   Failure("Login", err))
                         /\ UNCHANGED ledger
                    ELSE IssueTokens(p, "Login", au, login, password)
    /\ UNCHANGED <<cfg, skew, clock, users>>
    /\ UNCHANGED vaultVars

-----------------------------------------------------------------------------
(* What a caller may send to /refresh: a token it was given, that token    *)
(* with a signature that does not verify, tokens signed with the refresh   *)
(* secret but with other claims, and strings that are no token.            *)
Issued == { ledger[j].token_hash[2] : j \in DOMAIN ledger }

OtherSub(sub) == IF sub = Itoa(1) THEN Itoa(2) ELSE Itoa(1)

Forged(sub, jti) == [sub |-> sub, jti |-> jti, exp |-> RefreshTTL, key |-> cfg.refresh]

RefreshInputs ==
    Issued
    \cup { [t EXCEPT !.key = "not-the-secret"] : t \in Issued }
    \cup { [t EXCEPT !.sub = OtherSub(t.sub)] : t \in Issued }
    \cup { [t EXCEPT !.exp = t.exp + 1] : t \in Issued }
    \cup { EmptyToken, Forged(Itoa(1), UUIDString(NoJTI)), Forged("", UUIDString(1)),
           Forged("abc", UUIDString(1)), Forged(Itoa(1), "not-a-uuid") }

(* Handlers.Refresh and AuthService.Refresh up to GenerateRefreshToken.    *)
(* The record read by GetByJTI is used by ValidateToken alone, so the read *)
(* and the validation are taken as one step.                               *)
RefreshStart(p) ==
    /\ Quiet
    /\ pc[p] = "idle"
    /\ \E tok \in RefreshInputs :
         LET parseErr == IF ValidateRefreshToken(tok) # Nil THEN ValidateRefreshToken(tok)
                         ELSE IF ParseRefreshToken(tok, clock) # Nil
                         THEN ParseRefreshToken(tok, clock)
                         ELSE IF ~ParseIntOK(tok.sub) THEN ErrSyntax
                         ELSE IF ~UUIDParseOK(tok.jti) THEN ErrInvalidUUID
                         ELSE Nil
         IN  IF parseErr # Nil
             THEN Return(p, Request("Refresh", "", "", tok), Failure("Refresh", parseErr))
             ELSE \E io \in BOOLEAN :
                    LET userId == ParseInt(tok.sub)
                        oldJTI == UUIDParse(tok.jti)
                        tokenRecord == GetByJTI(ledger, oldJTI)
                        getErr == IF io THEN ErrIO
                                  ELSE IF tokenRecord = NoRec THEN ErrTokenDoesntExistsByJTI
                                  ELSE Nil
                        now == clock
                        verr == ValidateToken(now, userId, Sha256Hex(tok), tokenRecord)
                        at == GenerateAccessToken(userId, FreshJTI, clock)
                        rt == GenerateRefreshToken(userId, FreshJTI, clock)
                        err == IF getErr # Nil THEN GetByJTIError(getErr)
                               ELSE IF verr # Nil THEN ValidateTokenError(verr)
                               ELSE IF at.err # Nil THEN at.err
                               ELSE rt.err
                    IN  IF err # Nil
                        THEN Return(p, Request("Refresh", "", "", tok), Failure("Refresh", err))
                        ELSE /\ HasFresh
                             /\ loc' = [loc EXCEPT ![p] =
                                    [InitLoc EXCEPT !.token = tok, !.userId = userId,
                                                    !.oldJTI = oldJTI, !.now = now,
                                                    !.access = at.token,
                                                    !.refresh = rt.token,
                                                    !.newJTI = rt.jti]]
                             /\ pc' = [pc EXCEPT ![p] = "ref_rotate"]
                             /\ UNCHANGED res
    /\ UNCHANGED <<cfg, skew, clock, users, ledger>>
    /\ UNCHANGED vaultVars

(* A database without row locks *)
Locked_Never(p, jti) == FALSE

(* A row updated by a transaction that has not ended is locked *)
Locked(p, jti) == \E q \in Procs \ {p} : pc[q] = "ref_insert" /\ loc[q].oldJTI = jti

(* TokensRepository.Rotate: BeginTx and the conditional UPDATE *)
RotateUpdate(p) ==
    /\ Quiet
    /\ pc[p] = "ref_rotate"
    /\ ~Locked(p, loc[p].oldJTI)
    /\ \E io \in BOOLEAN :
         IF io
         THEN Return(p, Request("Refresh", "", "", loc[p].token), Failure("Refresh", ErrIO))
         ELSE IF ~UpdateMatches(ledger, loc[p].userId, loc[p].oldJTI, DBNow)
         THEN Return(p, Request("Refresh", "", "", loc[p].token),
                     Failure("Refresh", ErrTokenAlreadyRotatedOrExpired))
         ELSE /\ pc' = [pc EXCEPT ![p] = "ref_insert"]
              /\ UNCHANGED <<loc, res>>
    /\ UNCHANGED <<cfg, skew, clock, users, ledger>>
    /\ UNCHANGED vaultVars

(* TokensRepository.Rotate: the INSERT, then Commit or the deferred Rollback *)
RotateInsert(p) ==
    /\ Quiet
    /\ pc[p] = "ref_insert"
    /\ \E io \in BOOLEAN :
         IF io
         THEN /\ ledger' = TxRollback(ledger, loc[p].oldJTI, loc[p].newJTI)
              /\ Return(p, Request("Refresh", "", "", loc[p].token), Failure("Refresh", ErrIO))
         ELSE /\ ledger' = TxCommit(ledger, loc[p].userId, loc[p].oldJTI, loc[p].newJTI,
                                    Sha256Hex(loc[p].refresh), loc[p].now,
                                    loc[p].now + RefreshTTL)
              /\ Return(p, Request("Refresh", "", "", loc[p].token),
                        Response("Refresh", Nil, 0, loc[p].access, loc[p].refresh))
    /\ UNCHANGED <<cfg, skew, clock, users>>
    /\ UNCHANGED vaultVars

Next ==
    \/ Tick
    \/ Deliver
    \/ \E p \in Procs : BadBody(p)
    \/ \E p \in Procs : RegisterStart(p)
    \/ \E p \in Procs : RegisterIssue(p)
    \/ \E p \in Procs : Login(p)
    \/ \E p \in Procs : RefreshStart(p)
    \/ \E p \in Procs : RotateUpdate(p)
    \/ \E p \in Procs : RotateInsert(p)

Spec == Init /\ [][Next]_vars

-----------------------------------------------------------------------------
(* The /api/keychain routes behind middleware.Authorize *)

ErrMissingBearerToken == "ErrMissingBearerToken"
ErrInvalidAuthToken == "ErrInvalidAuthToken"

(* When the tokens a caller holds were issued: long ago, and just now *)
IssueTimes == {0, MaxTime}

(* A token signed with a key that is not the server's *)
WrongKey(tok) == [tok EXCEPT !.key = "forged-key-forged-key-forged-key-"]

HeldTokens ==
    { GenerateAccessToken(u, 1, t).token : u \in UserIDs, t \in IssueTimes }
      \cup { GenerateRefreshToken(1, 1, MaxTime).token,
             WrongKey(GenerateAccessToken(1, 1, MaxTime).token),
             EmptyToken }

Headers ==
    {NoHeader, [scheme |-> "Basic ", token |-> GenerateAccessToken(1, 1, MaxTime).token]}
      \cup [scheme : {"Bearer "}, token : HeldTokens]

(* A middleware that does not look at the scheme *)
Authorize_AnyScheme(header) ==
    IF ParseAccessToken(header.token, clock).err # Nil
    THEN [userID |-> "", err |-> ErrInvalidAuthToken]
    ELSE [userID |-> ParseAccessToken(header.token, clock).userID, err |-> Nil]

(* middleware.Authorize: the subject it puts in the context, or the error  *)
(* it answers with 401                                                     *)
Authorize(header) ==
    IF header.scheme # "Bearer "
    THEN [userID |-> "", err |-> ErrMissingBearerToken]
    ELSE IF ParseAccessToken(header.token, clock).err # Nil
    THEN [userID |-> "", err |-> ErrInvalidAuthToken]
    ELSE [userID |-> ParseAccessToken(header.token, clock).userID, err |-> Nil]

(* middleware.GetUserIDFromCtx *)
GetUserIDFromCtx(userID) == IF ParseIntOK(userID) THEN ParseInt(userID) ELSE NoUser

(* The request of a caller the middleware turned away *)
TurnedAway(op, header) ==
    [KeyRequest(op, NoUser, "", "", <<>>, <<>>) EXCEPT !.header = header]

-----------------------------------------------------------------------------
(* RunServer: the storage, the services, then the HTTP server.  The error  *)
(* of NewAEAD is overwritten by the error of Start without being read.     *)
RunServer ==
    /\ boot.state = "init"
    /\ IF ~boot.storage
       THEN /\ boot' = [boot EXCEPT !.state = "exited", !.err = ErrNoPostgresConnection]
            /\ UNCHANGED aead
       ELSE /\ aead' = NewAEAD(boot.secret).aead
            /\ \E startFails \in BOOLEAN :
                 boot' = IF startFails
                         THEN [boot EXCEPT !.state = "exited", !.err = ErrIO]
                         ELSE [boot EXCEPT !.state = "serving"]
    /\ UNCHANGED <<sessionVars, keychain, kres, trial, call>>

KeyQuiet == kres = NoKeyResponse

(* The caller receives the response *)
KeyDeliver ==
    /\ ~KeyQuiet
    /\ kres' = NoKeyResponse
    /\ UNCHANGED <<sessionVars, boot, aead, keychain, trial, call>>

KeyReturn(req, rsp) == kres' = [req |-> req, rsp |-> rsp]

(* A service that checks the title and nothing else *)
ValidateAdd_TitleOnly(keyType, title, in) == ValidateTitle(title)

(* KeychainService.AddCredential / AddCard / AddText / AddFile *)
ValidateAdd(keyType, title, in) ==
    IF ValidateTitle(title) # Nil THEN ValidateTitle(title)
    ELSE IF keyType = KeyCredential THEN ValidateCredential(in.login)
    ELSE IF keyType = KeyBankCard THEN ValidateCard(in.number, in.cvv)
    ELSE IF keyType = KeyText THEN ValidateText(in.text)
    ELSE Nil

(* Handlers.AddCredential answers a validation error with ErrBadRequest,   *)
(* the other three with the error itself                                   *)
AddErrorResponse(keyType, err) ==
    IF IsKeychainValidationError(err)
    THEN IF keyType = KeyCredential
         THEN [KeyResponse(400, ErrBadRequest) EXCEPT !.err = err]
         ELSE KeyResponse(400, err)
    ELSE KeyResponse(500, err)

(* What a handler answers before it calls the service: AddFile reads a    *)
(* multipart form, the other three a JSON body                             *)
Bodies(keyType) ==
    IF keyType = KeyFile
    THEN {"ok", "too large", "no file", "unreadable"}
    ELSE {"ok", "unreadable", "malformed"}

BodyFault(body) ==
    IF body = "too large" THEN KeyResponse(413, ErrPayloadFileLimit)
    ELSE IF body = "no file" THEN KeyResponse(400, ErrPayloadFileNotFound)
    ELSE IF body = "malformed" THEN KeyResponse(400, ErrBadRequest)
    ELSE KeyResponse(500, ErrIO)

(* A handler that adds a secret, with the service call it makes *)
Add(op, keyType, inputs) ==
    /\ boot.state = "serving"
    /\ KeyQuiet
    /\ Len(keychain) < MaxKeys
    /\ \E header \in Headers, title \in Titles, in \in inputs,
          body \in Bodies(keyType) :
         LET gate == Authorize(header)
             userId == GetUserIDFromCtx(gate.userID)
             req == [KeyRequest(op, userId, "", keyType, title, in)
                       EXCEPT !.header = header]
             verr == ValidateAdd(keyType, title, in)
         IN  IF gate.err # Nil
             THEN /\ KeyReturn(TurnedAway(op, header), KeyResponse(401, gate.err))
                  /\ UNCHANGED keychain
             ELSE IF userId = NoUser
             THEN KeyReturn(req, KeyResponse(401, ErrUnauthorizedError)) /\ UNCHANGED keychain
             ELSE IF body # "ok"
             THEN KeyReturn(req, BodyFault(body)) /\ UNCHANGED keychain
             ELSE IF verr # Nil
             THEN KeyReturn(req, AddErrorResponse(keyType, verr)) /\ UNCHANGED keychain
             ELSE \E nonce \in Nonces, randFails \in BOOLEAN, io \in BOOLEAN :
                    LET sealed == Encrypt(aead, Marshal(keyType, in), nonce, randFails)
                    IN  IF sealed.err = Panic
                        THEN KeyReturn(req, Dropped) /\ UNCHANGED keychain
                        ELSE IF sealed.err # Nil
                        THEN /\ KeyReturn(req, KeyResponse(500, sealed.err))
                             /\ UNCHANGED keychain
                        ELSE IF io
                        THEN KeyReturn(req, KeyResponse(500, ErrIO)) /\ UNCHANGED keychain
                        ELSE /\ keychain' = AddKey(keychain, userId, keyType, title,
                                                   sealed.ciphertext, sealed.nonce)
                             /\ KeyReturn(req, [KeyResponse(201, Nil) EXCEPT
                                                  !.uuid = NewKeyUUID(keychain)])
    /\ UNCHANGED <<sessionVars, boot, aead, trial, call>>

AddCredential == Add("AddCredential", KeyCredential, Credentials)
AddCard == Add("AddCard", KeyBankCard, Cards)
AddText == Add("AddText", KeyText, Texts)
AddFile == Add("AddFile", KeyFile, Files)

(* Handlers.GetKey with KeychainService.GetKey *)
GetKey ==
    /\ boot.state = "serving"
    /\ KeyQuiet
    /\ \E header \in Headers, keyUUID \in KeyUUIDParams, io \in BOOLEAN :
         LET gate == Authorize(header)
             userId == GetUserIDFromCtx(gate.userID)
             req == [KeyRequest("GetKey", userId, keyUUID, "", <<>>, <<>>)
                       EXCEPT !.header = header]
             got == GetUserKey(keychain, userId, keyUUID)
             row == keychain[got.row]
             opened == Decrypt(aead, row.nonce, row.data)
         IN  IF gate.err # Nil
             THEN KeyReturn(TurnedAway("GetKey", header), KeyResponse(401, gate.err))
             ELSE IF userId = NoUser
             THEN KeyReturn(req, KeyResponse(401, ErrUnauthorizedError))
             ELSE IF ~KeyUUIDParseOK(keyUUID)
             THEN KeyReturn(req, KeyResponse(400, ErrBadRequest))
             ELSE IF io
             THEN KeyReturn(req, KeyResponse(500, ErrIO))
             ELSE IF got.err = ErrNoRows
             THEN KeyReturn(req, [KeyResponse(404, ErrNotFound) EXCEPT !.err = ErrNoRows])
             ELSE IF opened.err = Panic
             THEN KeyReturn(req, Dropped)
             ELSE IF opened.err # Nil
             THEN KeyReturn(req, KeyResponse(500, opened.err))
             ELSE KeyReturn(req, [KeyResponse(200, Nil) EXCEPT
                                    !.uuid = row.key_uuid, !.type = row.type,
                                    !.title = row.title, !.plain = opened.plaintext,
                                    !.data = Marshal(row.type,
                                                     Unmarshal(row.type, opened.plaintext))])
    /\ UNCHANGED <<sessionVars, boot, aead, keychain, trial, call>>

(* Handlers.GetKeys with KeychainService.GetKeys *)
GetKeys ==
    /\ boot.state = "serving"
    /\ KeyQuiet
    /\ \E header \in Headers,
          raw \in {"", KeyCredential, KeyFile, "bogus"},
          io \in BOOLEAN :
         LET gate == Authorize(header)
             userId == GetUserIDFromCtx(gate.userID)
             req == [KeyRequest("GetKeys", userId, "", raw, <<>>, <<>>)
                       EXCEPT !.header = header]
         IN  IF gate.err # Nil
             THEN KeyReturn(TurnedAway("GetKeys", header), KeyResponse(401, gate.err))
             ELSE IF userId = NoUser
             THEN KeyReturn(req, KeyResponse(401, ErrUnauthorizedError))
             ELSE IF raw # "" /\ ~ParseKeyTypeOK(raw)
             THEN KeyReturn(req, KeyResponse(400, ErrBadQuery))
             ELSE IF io
             THEN KeyReturn(req, KeyResponse(500, ErrIO))
             ELSE KeyReturn(req, [KeyResponse(200, Nil) EXCEPT
                                    !.keys = GetUserKeys(keychain, userId, raw)])
    /\ UNCHANGED <<sessionVars, boot, aead, keychain, trial, call>>

(* Handlers.DeleteKey with KeychainService.DeleteKey *)
DeleteKey ==
    /\ boot.state = "serving"
    /\ KeyQuiet
    /\ \E header \in Headers, keyUUID \in KeyUUIDParams, io \in BOOLEAN :
         LET gate == Authorize(header)
             userId == GetUserIDFromCtx(gate.userID)
             req == [KeyRequest("DeleteKey", userId, keyUUID, "", <<>>, <<>>)
                       EXCEPT !.header = header]
         IN  IF gate.err # Nil
             THEN /\ KeyReturn(TurnedAway("DeleteKey", header), KeyResponse(401, gate.err))
                  /\ UNCHANGED keychain
             ELSE IF userId = NoUser
             THEN KeyReturn(req, KeyResponse(401, ErrUnauthorizedError)) /\ UNCHANGED keychain
             ELSE IF ~KeyUUIDParseOK(keyUUID)
             THEN KeyReturn(req, KeyResponse(400, ErrBadRequest)) /\ UNCHANGED keychain
             ELSE IF io
             THEN KeyReturn(req, KeyResponse(500, ErrIO)) /\ UNCHANGED keychain
             ELSE IF Live(keychain, userId, keyUUID) = {}
             THEN /\ KeyReturn(req, [KeyResponse(404, ErrNotFound) EXCEPT !.err = ErrNoRows])
                  /\ UNCHANGED keychain
             ELSE /\ keychain' = DeleteKeyRows(keychain, userId, keyUUID)
                  /\ KeyReturn(req, KeyResponse(204, Nil))
    /\ UNCHANGED <<sessionVars, boot, aead, trial, call>>

(* The configurations that pass the secret length gate *)
GateConfigs ==
    { c \in Configs : IsValidSecretKey(c.access) /\ IsValidSecretKey(c.refresh) }

(* The server from its start, with every configured envelope key; callers  *)
(* hold tokens issued up to now                                            *)
VaultInit ==
    /\ cfg \in GateConfigs
    /\ skew = 0
    /\ clock = MaxTime
    /\ users = <<>>
    /\ ledger = <<>>
    /\ pc = [p \in Procs |-> "idle"]
    /\ loc = [p \in Procs |-> InitLoc]
    /\ res = NoResponse
    /\ \E secret \in CryptKeys \ {OtherCryptKey}, storage \in BOOLEAN :
         boot = [Booting EXCEPT !.secret = secret, !.storage = storage]
    /\ aead = NilAEAD
    /\ keychain = <<>>
    /\ kres = NoKeyResponse
    /\ trial = NoTrial
    /\ call = NoCall

VaultNext ==
    \/ RunServer
    \/ KeyDeliver
    \/ AddCredential
    \/ AddCard
    \/ AddText
    \/ AddFile
    \/ GetKey
    \/ GetKeys
    \/ DeleteKey

SpecVault == VaultInit /\ [][VaultNext]_vars

-----------------------------------------------------------------------------
(* The envelope on its own: every key, payload and nonce of the bounds *)
AEADInit ==
    /\ SessionOff
    /\ boot = [Booting EXCEPT !.state = "off"]
    /\ aead = NilAEAD
    /\ keychain = <<>>
    /\ kres = NoKeyResponse
    /\ TrialInit
    /\ call = NoCall

AEADNext ==
    \/ TrialEncrypt
    \/ TrialFlipCiphertext
    \/ TrialFlipNonce
    \/ TrialResizeNonce
    \/ TrialCutCiphertext
    \/ TrialOtherKey
    \/ TrialDecrypt

SpecAEAD == AEADInit /\ [][AEADNext]_vars

-----------------------------------------------------------------------------
(* ValidateCard and the client on their own: one call, its input drawn    *)
(* from the bounded sets, and its result                                   *)

CardAlphabet == {"0", "1", "5", "8", "9", " ", "x"}
CardNumbers == UNION { [1 .. n -> CardAlphabet] : n \in 0 .. MaxCard }
CVVs == { <<"1", "2", "3">>, <<"1", "2">>, <<" ", "1", "2", "3">>, <<Zhe, "1">> }

CardCalls ==
    { [fn |-> "ValidateCard", in |-> [number |-> n, cvv |-> c], out |-> Nil,
       done |-> FALSE] : n \in CardNumbers, c \in CVVs }

CallValidateCard ==
    /\ call.fn = "ValidateCard"
    /\ ~call.done
    /\ call' = [call EXCEPT !.out = ValidateCard(call.in.number, call.in.cvv),
                            !.done = TRUE]
    /\ UNCHANGED <<sessionVars, boot, aead, keychain, kres, trial>>

(* Every call of ValidateCard within the bounds *)
CardInit ==
    /\ SessionOff
    /\ boot = [Booting EXCEPT !.state = "off"]
    /\ aead = NilAEAD
    /\ keychain = <<>>
    /\ kres = NoKeyResponse
    /\ trial = NoTrial
    /\ call \in CardCalls

SpecCard == CardInit /\ [][CallValidateCard]_vars

(* Client.Do: the request it is asked to make and the response the server  *)
(* gives *)
ErrPathIsEmpty == "ErrPathIsEmpty"
ErrEmptyMethod == "ErrEmptyMethod"
ErrCantMarshalBody == "ErrCantMarshalBody"
ErrClientRequest == "ErrClientRequest"
ErrClientRequestFailed == "ErrClientRequestFailed"
ErrCantReadBody == "ErrCantReadBody"
ErrServerResponseTooLarge == "ErrServerResponseTooLarge"
ErrServerResponseUnmarshal == "ErrServerResponseUnmarshal"

(* What Do returns: nil, one of the errors above, or an *HTTPError *)
NoError == [err |-> Nil, StatusCode |-> 0, Body |-> ""]
ClientError(err) == [err |-> err, StatusCode |-> 0, Body |-> ""]
HTTPError(code, body) == [err |-> "HTTPError", StatusCode |-> code, Body |-> body]

(* A response body: its bytes, whether they are a JSON object and, if so,  *)
(* the member "error" of it                                                *)
EmptyBody == [raw |-> "", object |-> FALSE, error |-> "", huge |-> FALSE]

ResponseBodies ==
    { EmptyBody,
      [raw |-> "{\"error\":\"bad input\"}", object |-> TRUE, error |-> "bad input",
       huge |-> FALSE],
      [raw |-> "{\"a\":\"b\"}", object |-> TRUE, error |-> "", huge |-> FALSE],
      [raw |-> "plain failure", object |-> FALSE, error |-> "", huge |-> FALSE],
      [raw |-> "more than 10 MB", object |-> FALSE, error |-> "", huge |-> TRUE] }

StatusCodes == {200, 204, 299, 304, 400, 401, 404, 500}

DoCalls ==
    { [fn |-> "Do", in |-> i, out |-> NoError, done |-> FALSE] :
        i \in [path : {"", "/api/keychain"},
               method : {"", "GET", "G T"},
               body : {"nil", "value", "unencodable"},
               result : {"nil", "pointer"},
               transport : {"ok", "fails"},
               read : {"ok", "fails"},
               StatusCode : StatusCodes,
               respBytes : ResponseBodies] }

Do(in) ==
    IF in.path = "" THEN ClientError(ErrPathIsEmpty)
    ELSE IF in.method = "" THEN ClientError(ErrEmptyMethod)
    ELSE IF in.body = "unencodable" THEN ClientError(ErrCantMarshalBody)
    ELSE IF in.method = "G T" THEN ClientError(ErrClientRequest)
    ELSE IF in.transport = "fails" THEN ClientError(ErrClientRequestFailed)
    ELSE IF in.read = "fails" THEN ClientError(ErrCantReadBody)
    ELSE IF in.respBytes.huge THEN ClientError(ErrServerResponseTooLarge)
    ELSE IF in.respBytes.raw = "" THEN NoError
    ELSE IF in.StatusCode < 200 \/ in.StatusCode >= 300
    THEN IF in.respBytes.object /\ in.respBytes.error # ""
         THEN HTTPError(in.StatusCode, in.respBytes.error)
         ELSE HTTPError(in.StatusCode, in.respBytes.raw)
    ELSE IF in.result = "nil" THEN NoError
    ELSE IF ~in.respBytes.object THEN ClientError(ErrServerResponseUnmarshal)
    ELSE NoError

CallDo ==
    /\ call.fn = "Do"
    /\ ~call.done
    /\ call' = [call EXCEPT !.out = Do(call.in), !.done = TRUE]
    /\ UNCHANGED <<sessionVars, boot, aead, keychain, kres, trial>>

(* Every call of Do within the bounds *)
ClientInit ==
    /\ SessionOff
    /\ boot = [Booting EXCEPT !.state = "off"]
    /\ aead = NilAEAD
    /\ keychain = <<>>
    /\ kres = NoKeyResponse
    /\ trial = NoTrial
    /\ call \in DoCalls

SpecClient == ClientInit /\ [][CallDo]_vars

-----------------------------------------------------------------------------
(* Vocabulary of the properties *)

(* This step writes the response of a request `op` *)
Returns(op) == Quiet /\ ~Quiet' /\ res'.req.op = op

(* The response of a request that one step answers: no worker moves on *)
ReturnsAtOnce(op) == Returns(op) /\ pc' = pc

(* The token a caller was given for a record of the ledger *)
Genuine(tok) == \E j \in DOMAIN ledger : ledger[j].token_hash = Sha256Hex(tok)

TokenJTI(tok) == IF UUIDParseOK(tok.jti) THEN UUIDParse(tok.jti) ELSE NoJTI
TokenRecord(tok) == GetByJTI(ledger, TokenJTI(tok))

(* expires_at lies in the future of both clocks *)
Unexpired(rec) == rec.expires_at > clock /\ rec.expires_at > DBNow

(* The record is ACTIVE: not replaced and now <= expires_at *)
Active(rec) == rec.replaced_by = NoJTI /\ clock <= rec.expires_at

CredentialRejections ==
    {ErrInvalidRefreshCredentials, ErrTokenAlreadyRotatedOrExpired}

-----------------------------------------------------------------------------
(* C1: of the Refresh calls made with one genuine, unexpired refresh token, *)
(* in any interleaving and with no storage error, the call that returns    *)
(* while the record is not yet replaced succeeds and replaces it, and each *)
(* call that returns after that fails with AlreadyRotatedOrExpired or      *)
(* InvalidRefreshCredentials and leaves the record alone: exactly one      *)
(* succeeds, never two.                                                    *)
C1_RotationSingleUse ==
    [][ ( /\ Returns("Refresh")
          /\ Genuine(res'.req.token)
          /\ Unexpired(TokenRecord(res'.req.token))
          /\ res'.rsp.err # ErrIO )
        => LET j == TokenJTI(res'.req.token)
           IN  IF ledger[j].replaced_by = NoJTI
               THEN /\ res'.rsp.err = Nil
                    /\ ledger'[j].replaced_by # NoJTI
               ELSE /\ res'.rsp.err \in CredentialRejections
                    /\ ledger'[j].replaced_by = ledger[j].replaced_by ]_vars

(* A call loses the race: its token is genuine and unexpired, and the      *)
(* conditional update found the record already replaced.                   *)
C1_Witness ==
    /\ res.req.op = "Refresh"
    /\ res.rsp.err = ErrTokenAlreadyRotatedOrExpired
    /\ Genuine(res.req.token)
    /\ Unexpired(TokenRecord(res.req.token))
    /\ TokenRecord(res.req.token).replaced_by # NoJTI

-----------------------------------------------------------------------------
(* C2: a Refresh with a token whose record is already replaced fails, and  *)
(* a Refresh with the token a successful Refresh returned succeeds while   *)
(* that token is unexpired (now <= expires_at), given no storage error.    *)
(* Stated for a database clock equal to the service clock.                 *)
C2_ReplayRejectedSuccessorAccepted ==
    [][ ( /\ Returns("Refresh")
          /\ skew = 0
          /\ Genuine(res'.req.token)
          /\ res'.rsp.err # ErrIO )
        => LET j == TokenJTI(res'.req.token)
           IN  /\ ledger[j].replaced_by # NoJTI => res'.rsp.err # Nil
               /\ ( /\ \E old \in DOMAIN ledger : ledger[old].replaced_by = j
                    /\ Active(ledger[j]) )
                  => res'.rsp.err = Nil ]_vars

-----------------------------------------------------------------------------
(* C3: a step of a Refresh request that does not return success leaves the *)
(* ledger as it was: the conditional update that matched stays invisible,  *)
(* and AlreadyRotatedOrExpired, a failed insert and every other error      *)
(* change no record.                                                       *)
C3_FailedRefreshLeavesLedger ==
    [][ /\ (Returns("Refresh") /\ res'.rsp.err # Nil) => ledger' = ledger
        /\ \A p \in Procs :
             (pc[p] = "ref_rotate" /\ pc'[p] = "ref_insert") => ledger' = ledger ]_vars

(* Rotate reported AlreadyRotatedOrExpired for a record that exists *)
C3_Witness ==
    /\ res.req.op = "Refresh"
    /\ res.rsp.err = ErrTokenAlreadyRotatedOrExpired
    /\ TokenRecord(res.req.token) # NoRec

-----------------------------------------------------------------------------
(* C4: the ledger is append-only.  No step removes a record or changes a   *)
(* field of one, except replaced_by, which goes from nil to a jti once.    *)
C4_AppendOnly ==
    [][ \A j \in DOMAIN ledger :
          /\ j \in DOMAIN ledger'
          /\ [ledger'[j] EXCEPT !.replaced_by = NoJTI]
               = [ledger[j] EXCEPT !.replaced_by = NoJTI]
          /\ ledger'[j].replaced_by # ledger[j].replaced_by
               => ledger[j].replaced_by = NoJTI /\ ledger'[j].replaced_by # NoJTI ]_vars

(* A record has been rotated and a third one issued *)
C4_Witness ==
    /\ Cardinality(DOMAIN ledger) > 2
    /\ \E j \in DOMAIN ledger : ledger[j].replaced_by # NoJTI

-----------------------------------------------------------------------------
(* C5: in every ledger a caller can read, a record with replaced_by = j    *)
(* has a successor with jti j and the same user_id, and the step that      *)
(* makes a record inserted by Rotate visible sets its predecessor's        *)
(* replaced_by to it.                                                      *)
C5_PointerAndSuccessorTogether ==
    /\ [](\A j \in DOMAIN ledger :
            ledger[j].replaced_by # NoJTI
              => /\ ledger[j].replaced_by \in DOMAIN ledger
                 /\ ledger[ledger[j].replaced_by].user_id = ledger[j].user_id)
    /\ [][ \A p \in Procs :
             (pc[p] = "ref_insert" /\ pc'[p] # "ref_insert")
               => \A k \in DOMAIN ledger' \ DOMAIN ledger :
                    /\ loc[p].oldJTI \in DOMAIN ledger
                    /\ ledger[loc[p].oldJTI].replaced_by = NoJTI
                    /\ ledger'[loc[p].oldJTI].replaced_by = k ]_vars

(* A rotation has been committed *)
C5_Witness ==
    /\ res.req.op = "Refresh"
    /\ res.rsp.err = Nil
    /\ TokenRecord(res.req.token).replaced_by = TokenJTI(res.rsp.refresh)
    /\ TokenJTI(res.rsp.refresh) \in DOMAIN ledger

-----------------------------------------------------------------------------
(* C6: a Refresh whose record had expires_at earlier than now when the     *)
(* call read the clock (the service's or the database's) does not succeed, *)
(* and a Refresh that fails changes nothing in the ledger, whatever the    *)
(* hash of the incoming token.                                             *)
ExpiredAt(rec, now) == rec.expires_at < now \/ rec.expires_at < now + skew

C6_ExpiredNeverRefreshes ==
    [][ /\ \A p \in Procs :
             (pc[p] = "ref_insert" /\ Returns("Refresh") /\ pc'[p] = "idle"
                /\ (res'.rsp.err = Nil \/ ledger' # ledger))
               => ~ExpiredAt(ledger[loc[p].oldJTI], loc[p].now)
        /\ (ReturnsAtOnce("Refresh") /\ TokenRecord(res'.req.token) # NoRec
              /\ ExpiredAt(TokenRecord(res'.req.token), clock))
             => res'.rsp.err # Nil /\ ledger' = ledger ]_vars

(* The genuine token of an expired record is refused by the ledger check *)
C6_Witness ==
    /\ res.req.op = "Refresh"
    /\ Genuine(res.req.token)
    /\ TokenRecord(res.req.token).expires_at < clock
    /\ TokenRecord(res.req.token).replaced_by = NoJTI
    /\ res.rsp.err = ErrInvalidRefreshCredentials

-----------------------------------------------------------------------------
(* C7: when Refresh has parsed the token and read the ledger, each failed  *)
(* check (no record, another user's record, replaced_by set, now past      *)
(* expires_at, another hash) ends the call there with the one error        *)
(* InvalidRefreshCredentials.                                              *)
Parses(tok) ==
    /\ ValidateRefreshToken(tok) = Nil
    /\ ParseRefreshToken(tok, clock) = Nil
    /\ ParseIntOK(tok.sub)
    /\ UUIDParseOK(tok.jti)

FailsACheck(tok) ==
    LET rec == TokenRecord(tok)
    IN  \/ rec = NoRec
        \/ rec.user_id # ParseInt(tok.sub)
        \/ rec.replaced_by # NoJTI
        \/ clock > rec.expires_at
        \/ rec.token_hash # Sha256Hex(tok)

C7_OneErrorForEveryCheck ==
    [][ \A p \in Procs :
          LET tok == IF pc'[p] = "ref_rotate" THEN loc'[p].token ELSE res'.req.token
          IN  ( /\ Quiet /\ pc[p] = "idle"
                /\ \/ pc'[p] = "ref_rotate"
                   \/ ReturnsAtOnce("Refresh")
                /\ Parses(tok)
                /\ FailsACheck(tok) )
              => /\ ReturnsAtOnce("Refresh")
                 /\ res'.rsp.err \in {ErrInvalidRefreshCredentials, ErrIO} ]_vars

(* A replayed token is answered InvalidRefreshCredentials *)
C7_Witness ==
    /\ res.req.op = "Refresh"
    /\ res.rsp.err = ErrInvalidRefreshCredentials
    /\ Genuine(res.req.token)
    /\ TokenRecord(res.req.token).replaced_by # NoJTI

-----------------------------------------------------------------------------
(* C8: an expired, a replayed and a tampered refresh token are answered    *)
(* alike: all three get the error of a failed ledger check (the generic    *)
(* InvalidRefreshCredentials, or AlreadyRotatedOrExpired from Rotate) and  *)
(* the HTTP status and error text the endpoint gives that error.           *)
Tampered(tok) == tok # EmptyToken /\ tok.key # cfg.refresh /\ TokenRecord(tok) # NoRec
Replayed(tok) == Genuine(tok) /\ TokenRecord(tok).replaced_by # NoJTI
Expired(tok) == Genuine(tok) /\ TokenRecord(tok).expires_at < clock

C8_RefreshFailuresAlike ==
    [][ ( /\ Returns("Refresh")
          /\ res'.rsp.err # ErrIO
          /\ \/ Tampered(res'.req.token)
             \/ Replayed(res'.req.token)
             \/ Expired(res'.req.token) )
        => /\ res'.rsp.err \in CredentialRejections
           /\ res'.rsp.status = RefreshStatus(ErrInvalidRefreshCredentials)
           /\ res'.rsp.text
                = ErrorText(RefreshStatus(ErrInvalidRefreshCredentials),
                            ErrInvalidRefreshCredentials) ]_vars

-----------------------------------------------------------------------------
(* C9: a Login with a login that passes ValidateLogin and is unknown, and  *)
(* a Login with a known login and a wrong password, both end with          *)
(* InvalidCredentials, insert no refresh record and return no token.       *)
UnknownLogin(req) == ValidateLogin(req.login) = Nil /\ ~LoginTaken(req.login)

WrongPassword(req) ==
    /\ LoginTaken(req.login)
    /\ ~CheckPasswordHash(req.password, users[UserByLogin(req.login)].password)

C9_LoginFailuresAlike ==
    [][ ( /\ Returns("Login")
          /\ UnknownLogin(res'.req) \/ WrongPassword(res'.req)
          /\ res'.rsp.err # ErrIO )
        => /\ res'.rsp.err = ErrInvalidCredentials
           /\ ledger' = ledger
           /\ res'.rsp.access = EmptyToken
           /\ res'.rsp.refresh = EmptyToken
           /\ res'.rsp.userId = 0 ]_vars

(* A known login was tried with a wrong password *)
C9_Witness ==
    /\ res.req.op = "Login"
    /\ WrongPassword(res.req)
    /\ res.rsp.err = ErrInvalidCredentials

-----------------------------------------------------------------------------
(* C10: a Login rejected for invalid credentials and a Refresh rejected    *)
(* for invalid or already rotated refresh credentials are answered 401,    *)
(* and 500 never answers one of these rejections.                          *)
C10_CredentialRejectionsAre401 ==
    /\ (res.req.op = "Login" /\ res.rsp.err = ErrInvalidCredentials)
         => res.rsp.status = 401
    /\ (res.req.op = "Refresh" /\ res.rsp.err \in CredentialRejections)
         => res.rsp.status = 401
    /\ (res.req.op \in {"Login", "Refresh"} /\ res.rsp.status = 500)
         => res.rsp.err \notin CredentialRejections \cup {ErrInvalidCredentials}

-----------------------------------------------------------------------------
(* C11: when Register, Login or Refresh returns success, the ledger holds  *)
(* the record of the returned refresh token: its jti is the token's jti,   *)
(* its user_id the authenticated user, its token_hash Sha256Hex of the     *)
(* token and not the token, its replaced_by nil and its expires_at its     *)
(* issued_at plus the refresh TTL.                                         *)
Succeeds == res'.req.op \in {"Register", "Login", "Refresh"}
            /\ Returns(res'.req.op) /\ res'.rsp.err = Nil

RecordOf(l, tok) == GetByJTI(l, TokenJTI(tok))

C11_SuccessLeavesRecord ==
    [][ Succeeds
        => LET tok == res'.rsp.refresh
               rec == RecordOf(ledger', tok)
           IN  /\ tok # EmptyToken
               /\ rec # NoRec
               /\ rec.jti = TokenJTI(tok)
               /\ Itoa(rec.user_id) = tok.sub
               /\ res'.req.op # "Refresh" => rec.user_id = res'.rsp.userId
               /\ res'.req.op = "Refresh"
                    => rec.user_id = RecordOf(ledger, res'.req.token).user_id
               /\ rec.token_hash = Sha256Hex(tok)
               /\ rec.token_hash # tok
               /\ rec.replaced_by = NoJTI
               /\ rec.expires_at = rec.issued_at + RefreshTTL ]_vars

(* A Login has succeeded after time has passed *)
C11_Witness ==
    /\ res.req.op = "Login"
    /\ res.rsp.err = Nil
    /\ RecordOf(ledger, res.rsp.refresh).issued_at > 0
    /\ RecordOf(ledger, res.rsp.refresh).token_hash = Sha256Hex(res.rsp.refresh)

-----------------------------------------------------------------------------
(* C12: when Register fails after the user row was created (a token cannot *)
(* be generated or the ledger Create fails) it returns the error with zero *)
(* user id and empty tokens, the user row stays and the call leaves no     *)
(* refresh record; a later Register of that login that reaches the user    *)
(* store fails with DuplicateLogin.                                        *)
HasUser(login) == \E i \in DOMAIN users : users[i].login = login

Orphan(login) ==
    \E i \in DOMAIN users :
      /\ users[i].login = login
      /\ \A j \in DOMAIN ledger : ledger[j].user_id # i

C12_LateFailureOrphansUser ==
    [][ /\ \A p \in Procs :
             (pc[p] = "reg_issue" /\ pc'[p] = "idle" /\ res'.rsp.err # Nil)
               => /\ res'.req.op = "Register"
                  /\ res'.rsp.status # 201
                  /\ res'.rsp.userId = 0
                  /\ res'.rsp.access = EmptyToken
                  /\ res'.rsp.refresh = EmptyToken
                  /\ users' = users
                  /\ users[loc[p].userId].login = loc[p].login
                  /\ ledger' = ledger
        /\ ( /\ ReturnsAtOnce("Register")
             /\ HasUser(res'.req.login)
             /\ ValidatePassword(res'.req.password) = Nil
             /\ res'.rsp.err \notin {ErrHash, ErrIO} )
           => /\ res'.rsp.err = ErrDuplicateLogin
              /\ users' = users
              /\ ledger' = ledger ]_vars

(* The login of a user left without a session is registered again *)
C12_Witness ==
    /\ res.req.op = "Register"
    /\ res.rsp.err = ErrDuplicateLogin
    /\ Orphan(res.req.login)

-----------------------------------------------------------------------------
(* C13: a Register whose login or password fails validation, or whose      *)
(* HashPassword fails, returns that error at once: no user row and no      *)
(* refresh record is added, and no request with such input gets as far as  *)
(* the user store.                                                         *)
C13_EarlyFailureTouchesNothing ==
    [][ /\ (ReturnsAtOnce("Register") /\ res'.req.login \in Logins)
           => LET login == res'.req.login
                  password == res'.req.password
                  err == res'.rsp.err
              IN  /\ ValidateLogin(login) # Nil
                       => err = ValidateLogin(login) /\ users' = users /\ ledger' = ledger
                  /\ (ValidateLogin(login) = Nil /\ Len(password) < 8)
                       => err = ErrPasswordTooShort /\ users' = users /\ ledger' = ledger
                  /\ err = ErrHash
                       => /\ users' = users /\ ledger' = ledger
                          /\ res'.rsp.access = EmptyToken
                          /\ res'.rsp.refresh = EmptyToken
        /\ \A p \in Procs :
             (pc[p] = "idle" /\ pc'[p] = "reg_issue")
               => /\ ValidateLogin(loc'[p].login) = Nil
                  /\ Len(loc'[p].password) >= 8 ]_vars

(* HashPassword failed for a login and a password that are valid *)
C13_Witness ==
    /\ res.req.op = "Register"
    /\ res.rsp.err = ErrHash
    /\ ValidateLogin(res.req.login) = Nil
    /\ ValidatePassword(res.req.password) = Nil
    /\ ~HasUser(res.req.login)

-----------------------------------------------------------------------------
-----------------------------------------------------------------------------
-----------------------------------------------------------------------------
(* C16: Decrypt of anything but an unmodified Encrypt output under the     *)
(* same key (a flipped bit of the ciphertext or the nonce, a nonce of      *)
(* another length, a ciphertext shorter than the tag, another key) returns *)
(* the one authentication error: no plaintext, no other error, no crash.   *)
C16_OnlyAuthenticationFailed ==
    (trial.stage = "opened" /\ trial.change # "none")
      => /\ trial.err = ErrOpen
         /\ trial.out = <<>>


-----------------------------------------------------------------------------
(* C17: with a configured envelope key that is not exactly 32 bytes,       *)
(* RunServer ends with an error before any request is served; the keychain *)
(* service is never built around an AEAD whose construction failed, and no *)
(* request reaches Encrypt or Decrypt without a valid key.                 *)
C17_BadKeyIsStartupFatal ==
    /\ Len(boot.secret) # 32
         => /\ boot.state \in {"init", "exited"}
            /\ boot.state = "exited" => boot.err # Nil
    /\ boot.state = "serving" => ~aead.isNil
    /\ kres.rsp # Dropped

-----------------------------------------------------------------------------
(* C18: GenerateAccessToken and GenerateRefreshToken each return           *)
(* SecretTooShort and no token when either of the two secrets is shorter   *)
(* than 32 bytes, and each returns a signed token when both are at least   *)
(* 32 bytes.                                                               *)
C18_EitherShortSecretBlocksBoth ==
    \A userID \in 1 .. 2, id \in JTIs :
      LET access == GenerateAccessToken(userID, id, clock)
          refresh == GenerateRefreshToken(userID, id, clock)
      IN  IF Len(cfg.access) >= 32 /\ Len(cfg.refresh) >= 32
          THEN /\ access.err = Nil
               /\ access.token # EmptyToken
               /\ access.token.key = cfg.access
               /\ refresh.err = Nil
               /\ refresh.token # EmptyToken
               /\ refresh.token.key = cfg.refresh
          ELSE /\ access.err = ErrSecretTooShort
               /\ access.token = EmptyToken
               /\ refresh.err = ErrSecretTooShort
               /\ refresh.token = EmptyToken

-----------------------------------------------------------------------------
(* What the handlers of the keychain did in a step *)
KeyReturns(op) == KeyQuiet /\ ~KeyQuiet' /\ kres'.req.op = op
Added == KeyQuiet /\ ~KeyQuiet' /\ kres'.rsp.status = 201

(* Key k of user u has been deleted *)
Deleted(table, userID, keyUUID) ==
    \E i \in DOMAIN table : /\ table[i].soft_deleted
                            /\ table[i].user_id = userID
                            /\ table[i].key_uuid = keyUUID

(* C19: after a successful Add of a credential, a card, a text or a file   *)
(* by user u that returned uuid k, GetKey(u, k) returns the same title,    *)
(* the type of that Add and decrypted data from which every payload field  *)
(* given to Add is recovered unchanged, the bytes of an uploaded file      *)
(* included.                                                               *)
C19_AddThenGetKeyRecoversPayload ==
    [][ /\ Added
          => LET req == kres'.req
                 got == GetUserKey(keychain', req.userId, kres'.rsp.uuid)
                 row == keychain'[got.row]
                 opened == Decrypt(aead', row.nonce, row.data)
             IN  /\ got.err = Nil
                 /\ row.title = req.title
                 /\ row.type = req.type
                 /\ opened.err = Nil
                 /\ Unmarshal(row.type, opened.plaintext) = req.in
        /\ (KeyReturns("GetKey") /\ kres'.rsp.status = 200)
          => LET req == kres'.req
                 row == keychain[GetUserKey(keychain, req.userId, req.uuid).row]
                 opened == Decrypt(aead, row.nonce, row.data)
             IN  /\ kres'.rsp.uuid = req.uuid
                 /\ kres'.rsp.title = row.title
                 /\ kres'.rsp.type = row.type
                 /\ kres'.rsp.plain = opened.plaintext
                 /\ Unmarshal(row.type, kres'.rsp.data)
                      = Unmarshal(row.type, opened.plaintext) ]_vars

-----------------------------------------------------------------------------
(* C20: once DeleteKey(u, k) has succeeded, every later GetKey(u, k) that  *)
(* reaches the table returns NotFound, GetKeys(u) never lists k, every     *)
(* later DeleteKey(u, k) returns NotFound and not success; the row stays   *)
(* in the table soft-deleted, is never removed and never readable again.   *)
C20_DeletedStaysDeleted ==
    [][ /\ (KeyReturns("DeleteKey") /\ kres'.rsp.status = 204)
          => /\ ~Deleted(keychain, kres'.req.userId, kres'.req.uuid)
             /\ Deleted(keychain', kres'.req.userId, kres'.req.uuid)
        /\ ( /\ KeyReturns("GetKey") \/ KeyReturns("DeleteKey")
             /\ Deleted(keychain, kres'.req.userId, kres'.req.uuid) )
          => /\ kres'.rsp.status \in {404, 500}
             /\ kres'.rsp.status = 500 => kres'.rsp.err = ErrIO
             /\ kres'.rsp.status = 404 => kres'.rsp.text = ErrNotFound
             /\ kres'.rsp.plain = <<>>
             /\ kres'.rsp.data = <<>>
             /\ keychain' = keychain
        /\ KeyReturns("GetKeys")
          => \A i \in DOMAIN kres'.rsp.keys :
               ~Deleted(keychain, kres'.req.userId, kres'.rsp.keys[i].uuid)
        /\ Len(keychain') >= Len(keychain)
        /\ \A i \in DOMAIN keychain :
             /\ keychain'[i].key_uuid = keychain[i].key_uuid
             /\ keychain'[i].user_id = keychain[i].user_id
             /\ keychain[i].soft_deleted => keychain'[i] = keychain[i] ]_vars

(* A second DeleteKey of a deleted key was answered NotFound, beside a     *)
(* key of the same user that is still there                                *)
C20_Witness ==
    /\ kres.req.op = "DeleteKey"
    /\ kres.rsp.status = 404
    /\ Deleted(keychain, kres.req.userId, kres.req.uuid)
    /\ \E i \in DOMAIN keychain :
         ~keychain[i].soft_deleted /\ keychain[i].user_id = kres.req.userId


-----------------------------------------------------------------------------
(* The Add operations and what their validators say of a request *)
AddOps == {"AddCredential", "AddCard", "AddText", "AddFile"}
KeyAddReturns == KeyQuiet /\ ~KeyQuiet' /\ kres'.req.op \in AddOps

PayloadError(req) ==
    IF req.type = KeyCredential THEN ValidateCredential(req.in.login)
    ELSE IF req.type = KeyBankCard THEN ValidateCard(req.in.number, req.in.cvv)
    ELSE IF req.type = KeyText THEN ValidateText(req.in.text)
    ELSE Nil

(* Errors answered before the service is called, and storage faults *)
BeforeService == {ErrMissingBearerToken, ErrInvalidAuthToken, ErrUnauthorizedError,
                  ErrBadRequest, ErrPayloadFileLimit, ErrPayloadFileNotFound, ErrIO}

(* C21: when the title validator or the validator of the record's type     *)
(* fails, AddCredential, AddCard, AddText and AddFile return that error    *)
(* without calling Encrypt or AddKey: nothing is encrypted or stored; a    *)
(* row is stored only after every matching validator has passed.           *)
C21_ValidatorsGateEncryption ==
    [][ /\ ( /\ KeyAddReturns
             /\ ValidateTitle(kres'.req.title) # Nil \/ PayloadError(kres'.req) # Nil )
          => /\ keychain' = keychain
             /\ kres'.rsp # Dropped
             /\ kres'.rsp.err \notin {Nil, ErrRand, ErrKeySize}
             /\ kres'.rsp.err \notin BeforeService
                  => /\ kres'.rsp.status = 400
                     /\ kres'.rsp.err = IF ValidateTitle(kres'.req.title) # Nil
                                        THEN ValidateTitle(kres'.req.title)
                                        ELSE PayloadError(kres'.req)
        /\ keychain' # keychain /\ Len(keychain') > Len(keychain)
          => /\ KeyAddReturns
             /\ ValidateTitle(kres'.req.title) = Nil
             /\ PayloadError(kres'.req) = Nil
             /\ keychain'[Len(keychain')].title = kres'.req.title
             /\ keychain'[Len(keychain')].type = kres'.req.type ]_vars

(* A card with a valid title and number and a short cvv was turned away    *)
(* by a server whose AEAD is nil: Encrypt was not reached                  *)
C21_Witness ==
    /\ kres.req.op = "AddCard"
    /\ kres.rsp.status = 400
    /\ kres.rsp.err = ErrCardCVVInvalid
    /\ ValidateTitle(kres.req.title) = Nil
    /\ aead.isNil


-----------------------------------------------------------------------------
(* A request to a keychain route was answered, by the middleware or by the *)
(* handler                                                                 *)
KeyAnswered == KeyQuiet /\ ~KeyQuiet'
ByMiddleware(rsp) == rsp.err \in {ErrMissingBearerToken, ErrInvalidAuthToken}

(* The header is "Bearer " and a token that ParseAccessToken accepts *)
Accepted(header) ==
    header.scheme = "Bearer " /\ ParseAccessToken(header.token, clock).err = Nil

(* C22: a request to a route of /api/keychain reaches its handler only if  *)
(* its Authorization header is "Bearer " and a token that ParseAccessToken *)
(* accepts; otherwise the answer is 401 and the handler does not run; the  *)
(* user the handler acts on is the subject of the accepted token.          *)
C22_OnlyBearersReachHandlers ==
    [][ KeyAnswered =>
          LET req == kres'.req
              rsp == kres'.rsp
          IN  /\ ~Accepted(req.header)
                   => /\ rsp.status = 401
                      /\ ByMiddleware(rsp)
                      /\ keychain' = keychain
                      /\ rsp.uuid = "" /\ rsp.keys = <<>>
                      /\ rsp.plain = <<>> /\ rsp.data = <<>>
              /\ ~ByMiddleware(rsp)
                   => /\ Accepted(req.header)
                      /\ Itoa(req.userId) = req.header.token.sub
                      /\ \A i \in DOMAIN keychain' :
                           (i \notin DOMAIN keychain \/ keychain'[i] # keychain[i])
                             => Itoa(keychain'[i].user_id) = req.header.token.sub ]_vars

(* An access token of user 1 that has expired was turned away while the    *)
(* table holds a key of user 1                                             *)
C22_Witness ==
    /\ kres.rsp.err = ErrInvalidAuthToken
    /\ kres.rsp.status = 401
    /\ kres.req.header.token.key = cfg.access
    /\ kres.req.header.token.sub = Itoa(1)
    /\ \E i \in DOMAIN keychain : keychain[i].user_id = 1


-----------------------------------------------------------------------------
(* The verdict on a title by its characters *)
TitleVerdict(title) ==
    IF TrimSpace(title) = <<>> THEN ErrTitleEmpty
    ELSE IF Len(TrimSpace(title)) > 128 THEN ErrTitleLong
    ELSE Nil

(* C23: ValidateTitle returns the Empty error iff the title is blank after *)
(* trimming, the TooLong error iff the trimmed title has more than 128     *)
(* characters, and no error otherwise: every trimmed title of 1 to 128     *)
(* characters is accepted, whatever its characters.                        *)
C23_TitleCountedInCharacters ==
    [][ /\ (KeyAddReturns /\ kres'.rsp.err \in {ErrTitleEmpty, ErrTitleLong})
             => kres'.rsp.err = TitleVerdict(kres'.req.title)
        /\ (KeyAddReturns /\ kres'.rsp.status = 201)
             => TitleVerdict(kres'.req.title) = Nil
        /\ ( /\ KeyAddReturns
             /\ kres'.rsp.status = 400
             /\ kres'.rsp.err \in {ErrCredentialEmptyLogin, ErrCardNumberInvalid,
                                   ErrCardCVVInvalid, ErrEmptyTextProvided} )
             => TitleVerdict(kres'.req.title) = Nil ]_vars


-----------------------------------------------------------------------------
(* A reference Luhn operator: the digits from the left, every digit at an  *)
(* odd distance from the last one replaced by the digit sum of its double  *)
RECURSIVE LuhnReference(_, _)
LuhnReference(digits, i) ==
    IF i > Len(digits) THEN 0
    ELSE LET d == DigitValue(digits[i])
         IN  (IF (Len(digits) - i) % 2 = 1 THEN ((2 * d) \div 10) + ((2 * d) % 10) ELSE d)
               + LuhnReference(digits, i + 1)

PassesLuhn(number) ==
    LET digits == SelectSeq(TrimSpace(number), LAMBDA c : c # " ")
    IN  /\ \A i \in DOMAIN digits : digits[i] \in {"0", "1", "2", "3", "4", "5", "6", "7", "8", "9"}
        /\ LuhnReference(digits, 1) % 10 = 0

ValidatedCard == call.fn = "ValidateCard" /\ call.done

(* C24: ValidateCard accepts a number iff, spaces removed, it is made of   *)
(* decimal digits only and its Luhn sum is 0 modulo 10, as the reference   *)
(* operator says; it reports InvalidNumber for a rejected number and       *)
(* InvalidCVV when the trimmed cvv is not exactly 3 characters.            *)
C24_CardByLuhnAndCVV ==
    ValidatedCard
      => /\ call.out = ErrCardNumberInvalid <=> ~PassesLuhn(call.in.number)
         /\ PassesLuhn(call.in.number)
              => /\ Len(TrimSpace(call.in.cvv)) # 3 => call.out = ErrCardCVVInvalid
                 /\ Len(TrimSpace(call.in.cvv)) = 3 => call.out = Nil

-----------------------------------------------------------------------------
(* Do has had a response and read its body *)
Responded ==
    /\ call.fn = "Do"
    /\ call.done
    /\ call.out.err \notin {ErrPathIsEmpty, ErrEmptyMethod, ErrCantMarshalBody,
                            ErrClientRequest, ErrClientRequestFailed, ErrCantReadBody,
                            ErrServerResponseTooLarge}

(* C25: Client.Do returns an *HTTPError with the status code for every     *)
(* response whose status is outside 200-299, whatever its body is (a JSON  *)
(* error object, plain text, nothing), and nil only for 2xx responses.     *)
C25_Non2xxIsHTTPError ==
    Responded
      => /\ (call.in.StatusCode < 200 \/ call.in.StatusCode > 299)
              => /\ call.out.err = "HTTPError"
                 /\ call.out.StatusCode = call.in.StatusCode
         /\ call.out = NoError
              => (call.in.StatusCode >= 200 /\ call.in.StatusCode <= 299)

-----------------------------------------------------------------------------
(* The tokens the two generators produce under the configuration *)
IsRefreshToken(tok) ==
    \E u \in UserIDs, id \in JTIs, t \in 0 .. MaxTime :
       tok = GenerateRefreshToken(u, id, t).token

IsAccessToken(tok) ==
    \E u \in UserIDs, id \in JTIs, t \in 0 .. MaxTime :
       tok = GenerateAccessToken(u, id, t).token

(* C26: token kinds are never confused: the Authorize middleware, by       *)
(* ParseAccessToken, turns away every token that GenerateRefreshToken      *)
(* produced, and ParseRefreshToken rejects every token that                *)
(* GenerateAccessToken produced, under every configuration that passes the *)
(* secret length gate, the default configuration included.                 *)
C26_TokenKindsNotConfused ==
    [][ KeyAnswered =>
          LET tok == kres'.req.header.token
          IN  /\ IsRefreshToken(tok)
                   => /\ ParseAccessToken(tok, clock).err # Nil
                      /\ kres'.rsp.status = 401
                      /\ kres'.rsp.err = ErrInvalidAuthToken
              /\ IsAccessToken(tok) => ParseRefreshToken(tok, clock) # Nil ]_vars

(* Under a configuration with two different secrets the middleware turned  *)
(* a fresh refresh token away                                              *)
C26_DistinctSecrets ==
    /\ cfg.access # cfg.refresh
    /\ IsRefreshToken(kres.req.header.token)
    /\ kres.rsp.err = ErrInvalidAuthToken

-----------------------------------------------------------------------------
(* The records whose replaced_by is the jti *)
Predecessors(l, j) == { k \in DOMAIN l : l[k].replaced_by = j }

(* The record a lineage starts with: predecessors followed back, at most   *)
(* as many times as there are records                                      *)
RECURSIVE Root(_, _, _)
Root(l, j, n) ==
    IF n = 0 \/ Predecessors(l, j) = {} THEN j
    ELSE Root(l, CHOOSE k \in Predecessors(l, j) : TRUE, n - 1)

Lineage(l, j) == Root(l, j, Cardinality(DOMAIN l))

(* replaced_by followed n times reaches nil *)
RECURSIVE Ends(_, _, _)
Ends(l, j, n) ==
    IF j = NoJTI THEN TRUE
    ELSE IF n = 0 \/ j \notin DOMAIN l THEN FALSE
    ELSE Ends(l, l[j].replaced_by, n - 1)

(* ACTIVE at an instant: not replaced and now <= expires_at *)
ActiveAt(rec, now) == rec.replaced_by = NoJTI /\ now <= rec.expires_at

(* The pointers form chains: no branch, no cycle, at most one record of a  *)
(* lineage not replaced                                                    *)
Chains(l) ==
    /\ \A j \in DOMAIN l : Cardinality(Predecessors(l, j)) <= 1
    /\ \A j \in DOMAIN l : Ends(l, j, Cardinality(DOMAIN l))
    /\ \A j, k \in DOMAIN l :
         (j # k /\ Lineage(l, j) = Lineage(l, k))
           => ~(l[j].replaced_by = NoJTI /\ l[k].replaced_by = NoJTI)

(* C27: within one lineage of refresh tokens (a record created by Register *)
(* or Login and the successors reached by replaced_by) at most one record  *)
(* is ACTIVE in every reachable state, also under concurrent Refresh       *)
(* calls; the replaced_by pointers form one chain without a branch and     *)
(* without a cycle.  A record enters the ledger as the start of a lineage, *)
(* by Register or Login, or as the successor of the one record of its      *)
(* lineage that was not replaced, by Refresh.                              *)
C27_OneActivePerLineage ==
    [][ /\ Chains(ledger')
        /\ \A j, k \in DOMAIN ledger' :
             (j # k /\ Lineage(ledger', j) = Lineage(ledger', k))
               => ~(ActiveAt(ledger'[j], clock') /\ ActiveAt(ledger'[k], clock'))
        /\ \A j \in DOMAIN ledger' \ DOMAIN ledger :
             IF res'.req.op = "Refresh"
             THEN /\ Cardinality(Predecessors(ledger', j)) = 1
                  /\ \A k \in Predecessors(ledger', j) :
                       k \in DOMAIN ledger /\ ledger[k].replaced_by = NoJTI
             ELSE /\ res'.req.op \in {"Register", "Login"}
                  /\ Predecessors(ledger', j) = {}
        /\ \A j \in DOMAIN ledger :
             ledger'[j].replaced_by # ledger[j].replaced_by
               => /\ ledger[j].replaced_by = NoJTI
                  /\ ledger'[j].replaced_by \in DOMAIN ledger' \ DOMAIN ledger ]_vars

(* Of two concurrent Refresh calls with one token the second was refused:  *)
(* the lineage is the replaced record and its one successor, which is      *)
(* ACTIVE                                                                  *)
C27_Witness ==
    /\ res.req.op = "Refresh"
    /\ res.rsp.err = ErrTokenAlreadyRotatedOrExpired
    /\ \E j \in DOMAIN ledger :
         /\ ledger[j].token_hash = Sha256Hex(res.req.token)
         /\ ledger[j].replaced_by \in DOMAIN ledger
         /\ Active(ledger[ledger[j].replaced_by])
         /\ Lineage(ledger, ledger[j].replaced_by) = j

-----------------------------------------------------------------------------
(* No other worker is inside a request *)
Alone == Cardinality({ q \in Procs : pc[q] # "idle" }) <= 1

(* C28: a single Refresh call (no concurrent Refresh, no storage error)    *)
(* with a validly signed token whose record is ACTIVE (replaced_by nil,    *)
(* now <= expires_at, matching user and hash) succeeds and rotates the     *)
(* record, also at the instant now = expires_at and whatever the offset    *)
(* between the service clock and the database clock.                       *)
C28_ActiveAlwaysRefreshes ==
    [][ ( /\ Returns("Refresh")
          /\ Alone
          /\ Genuine(res'.req.token)
          /\ ParseRefreshToken(res'.req.token, clock) = Nil
          /\ TokenRecord(res'.req.token).user_id = ParseInt(res'.req.token.sub)
          /\ Active(TokenRecord(res'.req.token))
          /\ res'.rsp.err # ErrIO )
        => /\ res'.rsp.err = Nil
           /\ ledger'[TokenJTI(res'.req.token)].replaced_by # NoJTI ]_vars

(* C28 away from the boundary: expires_at lies in the future of both clocks *)
C28_UnexpiredAlwaysRefreshes ==
    [][ ( /\ Returns("Refresh")
          /\ Alone
          /\ Genuine(res'.req.token)
          /\ ParseRefreshToken(res'.req.token, clock) = Nil
          /\ TokenRecord(res'.req.token).user_id = ParseInt(res'.req.token.sub)
          /\ Active(TokenRecord(res'.req.token))
          /\ Unexpired(TokenRecord(res'.req.token))
          /\ res'.rsp.err # ErrIO )
        => /\ res'.rsp.err = Nil
           /\ ledger'[TokenJTI(res'.req.token)].replaced_by # NoJTI ]_vars

-----------------------------------------------------------------------------
(* Key k is a key of a user other than u, deleted or not *)
OfAnother(table, userID, keyUUID) ==
    \E i \in DOMAIN table : table[i].key_uuid = keyUUID /\ table[i].user_id # userID

(* The request got past the middleware and the checks of the handler, and  *)
(* the storage did not fail                                                *)
ReachedTable(rsp) ==
    /\ rsp.status \notin {400, 401}
    /\ rsp.err # ErrIO

(* C29: secrets are isolated per user.  For two distinct users a and b and *)
(* any sequence of Add, GetKey, GetKeys and DeleteKey calls, GetKey(b, k)  *)
(* and DeleteKey(b, k) on a key k added by a return NotFound and leave k   *)
(* unchanged and still readable by a, and GetKeys(b) never lists a key     *)
(* added by a.                                                             *)
C29_SecretsIsolatedPerUser ==
    [][ KeyAnswered =>
          LET req == kres'.req
              rsp == kres'.rsp
          IN  /\ ( /\ req.op \in {"GetKey", "DeleteKey"}
                   /\ ReachedTable(rsp)
                   /\ OfAnother(keychain, req.userId, req.uuid) )
                => /\ rsp.status = 404
                   /\ rsp.text = ErrNotFound
                   /\ rsp.plain = <<>> /\ rsp.data = <<>> /\ rsp.title = <<>>
                   /\ keychain' = keychain
              /\ (req.op = "GetKeys" /\ rsp.status = 200)
                => \A i \in DOMAIN rsp.keys :
                     ~OfAnother(keychain, req.userId, rsp.keys[i].uuid)
              /\ \A i \in DOMAIN keychain :
                   keychain[i].user_id # req.userId
                     => /\ keychain'[i] = keychain[i]
                        /\ GetUserKey(keychain', keychain[i].user_id, keychain[i].key_uuid)
                             = GetUserKey(keychain, keychain[i].user_id, keychain[i].key_uuid) ]_vars

(* DeleteKey by one user of a live key of another was answered NotFound,   *)
(* and the owner can still read the key                                    *)
C29_Witness ==
    /\ kres.req.op = "DeleteKey"
    /\ kres.rsp.status = 404
    /\ kres.req.userId \in UserIDs
    /\ \E i \in DOMAIN keychain :
         /\ keychain[i].key_uuid = kres.req.uuid
         /\ keychain[i].user_id \in UserIDs \ {kres.req.userId}
         /\ GetUserKey(keychain, keychain[i].user_id, kres.req.uuid).row = i

-----------------------------------------------------------------------------
(* The number has no digit: nothing is left of it without its spaces *)
NoDigits(number) == WithoutSpaces(TrimSpace(number)) = <<>>

(* C30: ValidateCard rejects with InvalidNumber every card number that has *)
(* no digit after trimming and removing spaces (the empty string, spaces   *)
(* only), so AddCard, which stores what ValidateCard accepts, never        *)
(* encrypts or stores a card whose number is empty.                        *)
C30_EmptyNumberRejected ==
    (ValidatedCard /\ NoDigits(call.in.number)) => call.out = ErrCardNumberInvalid

(* C30 for the numbers that have a digit: ValidateCard accepts no number   *)
(* that the reference operator rejects                                     *)
C30_NumbersWithDigits ==
    (ValidatedCard /\ ~NoDigits(call.in.number) /\ call.out = Nil)
      => PassesLuhn(call.in.number)

====
